---- MODULE Spec2Model ----
(***************************************************************************)
(* SDFormatter: the formatting pipeline of the terminal program            *)
(* (sdFormatterTerminal-English.py, run_format_pipeline) and of the GUI     *)
(* worker (sdFormatterGUI.py, FormatWorker), with their safety gate and    *)
(* filesystem / cluster / label policy.                                    *)
(*                                                                         *)
(* Conventions.                                                            *)
(*  - Sizes are counted in KiB, so that 256 GiB fits TLC's 32-bit         *)
(*    integers; every size the model uses is a multiple of 1 KiB.          *)
(*  - Text is a sequence of one-character strings; "" written <<>>.        *)
(*  - Optional[int] is None (<<>>) or <<n>>.                               *)
(*  - An option of args is drawn when the code first reads it and never    *)
(*    changes afterwards: args holds the options read so far.  A value     *)
(*    that has not been read cannot have influenced any command.           *)
(*  - issued is the sequence of PowerShell scripts / file operations that  *)
(*    were really started (subprocess.run was called).                      *)
(***************************************************************************)
EXTENDS Integers, Sequences, FiniteSets, TLC

VARIABLES
    prog,       \* which program runs: "terminal" or "gui"
    machine,    \* the disks of the computer, in OS enumeration order
    before,     \* the machine as it was when the run started
    args,       \* the options of the run read so far
    pc,         \* position of the run
    disks,      \* terminal: list_disks() result
    target,     \* terminal: the catalog record looked up
    policy,     \* resolved fs / label / cluster / style (locals of the run)
    result,     \* terminal: the result dict; gui: the dict sent with finished
    raised,     \* exception that left run_format_pipeline / reached run()
    issued,     \* scripts really executed, in order
    outcomes,   \* what each executed script returned (exit, stdout, stderr)
    dl,         \* drive letter local
    tmp,        \* terminal: the temporary file of the I/O test on the volume
    size_bytes, \* gui: size of the disk, None when it could not be determined
    step,       \* gui: number of the step being run (1..5)
    cancelled,  \* gui: FormatWorker._cancelled
    emitted,    \* gui: percent values sent on the step signal, in order
    signals,    \* gui: finished / failed signals sent, in order
    window,     \* demo GUI: the widgets of MainWindow and its signal queue
    workers,    \* demo GUI: the FormatWorker threads started so far
    cancel_point \* gui: where the run was when cancel() was called (history)

gui_vars == <<size_bytes, step, cancelled, emitted, signals>>
base_vars == <<window, workers>>

vars == <<prog, machine, before, args, pc, disks, target, policy, result,
          raised, issued, outcomes, dl, tmp, size_bytes, step, cancelled,
          emitted, signals, window, workers, cancel_point>>

----------------------------------------------------------------------------
(* Units and bounds *)

KiBPerMiB == 2 * 512
KiBPerGiB == KiBPerMiB * KiBPerMiB

\* Number of fixed disks that may precede the card in the enumeration.
MaxOtherDisks == 1

None == <<>>
Some(x) == <<x>>
Absent == "<absent>"


----------------------------------------------------------------------------
(* Text helpers (Python str methods the code uses) *)

Min(a, b) == IF a <= b THEN a ELSE b

Take(s, n) == SubSeq(s, 1, Min(n, Len(s)))

RemoveChars(s, set) == SelectSeq(s, LAMBDA c : c \notin set)

RECURSIVE LStrip(_, _)
LStrip(s, set) ==
    IF s # <<>> /\ Head(s) \in set THEN LStrip(Tail(s), set) ELSE s

RECURSIVE RStrip(_, _)
RStrip(s, set) ==
    IF s # <<>> /\ s[Len(s)] \in set
    THEN RStrip(SubSeq(s, 1, Len(s) - 1), set) ELSE s

\* str.strip(chars)
StripChars(s, set) == RStrip(LStrip(s, set), set)

\* Characters of the model's alphabet, by class.
LowerChars == {"a", "b"}
UpperChars == {"A", "B", "C", "D", "R", "S"}
DigitChars == {"1"}
Whitespace == {" ", "\t"}
Quotes == {"'", "\""}
NonAscii == {"<e-acute>", "<E-ACUTE>"}

\* str.upper()
UpperChar(c) ==
    CASE c = "a" -> "A"
      [] c = "b" -> "B"
      [] c = "<e-acute>" -> "<E-ACUTE>"
      [] OTHER -> c

UpperText(s) == [i \in 1..Len(s) |-> UpperChar(s[i])]

\* str.upper() of a filesystem name
UpperFs(f) == IF f = "exFAT" THEN "EXFAT" ELSE f

\* re.sub(r"\s+", " ", s)
RECURSIVE CollapseWs(_)
CollapseWs(s) ==
    IF s = <<>> THEN <<>>
    ELSE IF Head(s) \in Whitespace
         THEN <<" ">> \o CollapseWs(LStrip(s, Whitespace))
         ELSE <<Head(s)>> \o CollapseWs(Tail(s))

----------------------------------------------------------------------------
(* Filesystem and cluster policy *)

\* suggest_fs: gb = bytes / 1024**3; FAT32 if gb <= 32
\* A suggest_fs that leaves exactly 32 GiB to exFAT.
suggest_fs_boundary_excluded(bytes_size) ==
    IF bytes_size < 32 * KiBPerGiB THEN "FAT32" ELSE "exFAT"

\* A suggest_cluster whose exFAT steps exclude their upper boundaries.
suggest_cluster_boundary_excluded(fs, bytes_size) ==
    IF UpperFs(fs) = "FAT32"
    THEN IF bytes_size <= 4 * KiBPerGiB THEN 4096
         ELSE IF bytes_size <= 8 * KiBPerGiB THEN 8192
         ELSE IF bytes_size <= 16 * KiBPerGiB THEN 16384
         ELSE 32768
    ELSE IF bytes_size < 64 * KiBPerGiB THEN 131072
         ELSE IF bytes_size < 256 * KiBPerGiB THEN 262144
         ELSE 524288

suggest_fs(bytes_size) ==
    IF bytes_size <= 32 * KiBPerGiB THEN "FAT32" ELSE "exFAT"

suggest_cluster(fs, bytes_size) ==
    IF UpperFs(fs) = "FAT32"
    THEN IF bytes_size <= 4 * KiBPerGiB THEN 4096
         ELSE IF bytes_size <= 8 * KiBPerGiB THEN 8192
         ELSE IF bytes_size <= 16 * KiBPerGiB THEN 16384
         ELSE 32768
    ELSE IF bytes_size <= 64 * KiBPerGiB THEN 131072
         ELSE IF bytes_size <= 256 * KiBPerGiB THEN 262144
         ELSE 524288

----------------------------------------------------------------------------
(* Label sanitization *)

INVALID_LABEL_CHARS == {"<", ">", ":", "\"", "/", "\\", "|", "?", "*"}

\* [A-Z0-9 _]
CameraChars == UpperChars \cup DigitChars \cup {" ", "_"}

\* 32 <= ord(c) < 127
PrintableAscii(c) == c \notin NonAscii /\ c # "\t"

CameraLabelMax == 11
LabelMax == 32
DefaultLabel == <<"S", "D", "_", "C", "A", "R", "D">>

OrDefault(base) == IF base = <<>> THEN DefaultLabel ELSE base

\* A sanitize_label whose camera mode uppercases but replaces nothing.
sanitize_label_keeping_invalid(label, fs, camera_compat) ==
    LET raw == RemoveChars(StripChars(label, Whitespace), Quotes)
    IN IF camera_compat
       THEN LET base == StripChars(CollapseWs(UpperText(raw)), Whitespace)
            IN OrDefault(Take(base, CameraLabelMax))
       ELSE LET base == SelectSeq(raw, LAMBDA c :
                            PrintableAscii(c) /\ c \notin INVALID_LABEL_CHARS)
            IN OrDefault(Take(StripChars(base, {".", " "}), LabelMax))

\* A sanitize_label that removes double quotes only.
sanitize_label_keeping_apostrophe(label, fs, camera_compat) ==
    LET raw == RemoveChars(StripChars(label, Whitespace), {"\""})
    IN IF camera_compat
       THEN LET up == UpperText(raw)
                sub == [i \in 1..Len(up) |->
                          IF up[i] \in CameraChars THEN up[i] ELSE "_"]
                base == StripChars(CollapseWs(sub), Whitespace)
            IN OrDefault(Take(base, CameraLabelMax))
       ELSE LET base == SelectSeq(raw, LAMBDA c :
                            PrintableAscii(c) /\ c \notin INVALID_LABEL_CHARS)
            IN OrDefault(Take(StripChars(base, {".", " "}), LabelMax))

sanitize_label(label, fs, camera_compat) ==
    LET raw == RemoveChars(StripChars(label, Whitespace), Quotes)
    IN IF camera_compat
       THEN LET up == UpperText(raw)
                sub == [i \in 1..Len(up) |->
                          IF up[i] \in CameraChars THEN up[i] ELSE "_"]
                base == StripChars(CollapseWs(sub), Whitespace)
            IN OrDefault(Take(base, CameraLabelMax))
       ELSE LET base == SelectSeq(raw, LAMBDA c :
                            PrintableAscii(c) /\ c \notin INVALID_LABEL_CHARS)
            IN OrDefault(Take(StripChars(base, {".", " "}), LabelMax))

\* sanitize_label of the Italian program: no quote removal.
sanitize_label_it(label, fs, camera_compat) ==
    LET lbl == StripChars(label, Whitespace)
    IN IF camera_compat
       THEN LET up == UpperText(lbl)
                sub == [i \in 1..Len(up) |->
                          IF up[i] \in CameraChars THEN up[i] ELSE "_"]
                base == StripChars(CollapseWs(sub), Whitespace)
            IN OrDefault(Take(base, CameraLabelMax))
       ELSE LET base == SelectSeq(lbl, LAMBDA c :
                            PrintableAscii(c) /\ c \notin INVALID_LABEL_CHARS)
            IN OrDefault(Take(StripChars(base, {".", " "}), LabelMax))

----------------------------------------------------------------------------
(* The computer: its disks, and what PowerShell answers *)

\* Disk numbers: the fixed disks are 0 .. MaxOtherDisks-1, then the card.
CardNumber == MaxOtherDisks + 2
AbsentNumber == CardNumber + 1

Disk(n, size, sys, boot, ro, letters) ==
    [number |-> n, size |-> size, is_system |-> sys, is_boot |-> boot,
     is_readonly |-> ro, letters |-> letters]

\* Disk 0 is the system disk; further fixed disks are plain data disks.
OtherDisk(n) ==
    IF n = 0 THEN Disk(0, 256 * KiBPerGiB, TRUE, TRUE, FALSE, <<"C">>)
    ELSE Disk(n, 256 * KiBPerGiB, FALSE, FALSE, FALSE, <<"D">>)

Others(k) == [i \in 1..k |-> OtherDisk(i - 1)]

\* Card sizes in KiB: unknown (0), 32 MiB, 32e9 bytes, 64e9 bytes.
CardSizes == {0, 32 * KiBPerMiB, 31250000, 62500000}

Cards ==
    {Disk(CardNumber, s, FALSE, FALSE, FALSE, <<"E">>) : s \in CardSizes}
    \cup {Disk(CardNumber, 31250000, f[1], f[2], f[3], <<"E">>) :
             f \in BOOLEAN \X BOOLEAN \X BOOLEAN}

Machines ==
    {Others(k) \o <<c>> : k \in 0..MaxOtherDisks, c \in Cards}
    \cup {Others(k) : k \in 1..MaxOtherDisks}

RequestedDisks == {0, CardNumber, AbsentNumber}

MachineDisk(m, n) ==
    LET hits == {i \in DOMAIN m : m[i].number = n}
    IN IF hits = {} THEN None ELSE Some(m[CHOOSE i \in hits : TRUE])

SetLetters(m, n, ls) ==
    [i \in DOMAIN m |-> IF m[i].number = n
                        THEN [m[i] EXCEPT !.letters = ls] ELSE m[i]]

\* "... | ConvertTo-Json": nothing for no object, a bare object for one
\* object, an array otherwise.
ConvertToJson(objs) ==
    IF Len(objs) = 0 THEN <<>>
    ELSE IF Len(objs) = 1 THEN <<"obj", objs[1]>>
    ELSE <<"arr", objs>>

\* Outcome of one PowerShell process: exit code, stdout, stderr.
Proc(rc, out, err) == [rc |-> rc, stdout |-> out, stderr |-> err]

Failures == {Proc(1, <<>>, ""), Proc(1, <<>>, "Access is denied.")}

ProcOutcomes(stdouts) == {Proc(0, o, "") : o \in stdouts} \cup Failures

\* A script handed to PowerShell (or a file operation of test_io).
Script(kind, n, detail) == [kind |-> kind, disk |-> n, detail |-> detail]

MutatingKinds ==
    {"dismount", "zero_fill", "clear_and_init", "create_partition_and_format",
     "set_disk", "clear_disk", "initialize_disk", "new_partition",
     "format_volume"}

----------------------------------------------------------------------------
(* Exceptions *)

Exc(type, msg) == [type |-> type, msg |-> msg]
NoExc == Exc("", "")

----------------------------------------------------------------------------
(* PowerShell helpers of the terminal program *)

\* run_ps: the dummy result in dry-run, else the process; a non-zero exit
\* raises PSError(stderr or "PowerShell error").
\* A run_ps that starts the script whatever dry_run says.
run_ps_ignoring_dry_run(script, dry_run, proc) ==
    IF proc.rc # 0
    THEN [started |-> TRUE,
          exc |-> Exc("PSError", IF proc.stderr = "" THEN "PowerShell error"
                                 ELSE proc.stderr),
          stdout |-> <<>>]
    ELSE [started |-> TRUE, exc |-> NoExc, stdout |-> proc.stdout]

run_ps(script, dry_run, proc) ==
    IF dry_run
    THEN [started |-> FALSE, exc |-> NoExc, stdout |-> <<>>]
    ELSE IF proc.rc # 0
         THEN [started |-> TRUE,
               exc |-> Exc("PSError", IF proc.stderr = ""
                                      THEN "PowerShell error"
                                      ELSE proc.stderr),
               stdout |-> <<>>]
         ELSE [started |-> TRUE, exc |-> NoExc, stdout |-> proc.stdout]

\* ps_json: [] for empty output, else the parsed value.
ps_json(stdout) == IF Len(stdout) = 0 THEN <<>> ELSE stdout

\* "if isinstance(x, dict): x = [x]"
\* A normalisation that loses a bare object instead of wrapping it.
AsList_dropping_single_object(v) ==
    IF Len(v) = 0 THEN <<>>
    ELSE IF v[1] = "obj" THEN <<>> ELSE v[2]

AsList(v) ==
    IF Len(v) = 0 THEN <<>>
    ELSE IF v[1] = "obj" THEN <<v[2]>> ELSE v[2]

\* list_disks: one record per enumerated disk, in the order returned.
list_disks(stdout) ==
    LET discs == AsList(ps_json(stdout))
    IN [i \in 1..Len(discs) |->
          Disk(discs[i].number, discs[i].size, discs[i].is_system,
               discs[i].is_boot, discs[i].is_readonly,
               SelectSeq(discs[i].letters, LAMBDA l : l # ""))]

\* next((d for d in disks if d["number"] == n), None)
FindDisk(ds, n) ==
    LET hits == {i \in 1..Len(ds) : ds[i].number = n}
    IN IF hits = {} THEN None
       ELSE Some(ds[CHOOSE i \in hits : \A j \in hits : i <= j])

----------------------------------------------------------------------------
(* Safety gate *)

\* A gate that lets read-only disks through.
ensure_safe_target_allowing_readonly(disk) ==
    IF disk.is_system \/ disk.is_boot
    THEN Exc("PermissionError", "system/boot disk")
    ELSE IF disk.size # 0 /\ disk.size < 64 * KiBPerMiB
    THEN Exc("ValueError", "too small")
    ELSE NoExc

\* A gate that checks the size before the flags.
ensure_safe_target_size_first(disk) ==
    IF disk.size # 0 /\ disk.size < 64 * KiBPerMiB
    THEN Exc("ValueError", "too small")
    ELSE IF disk.is_system \/ disk.is_boot
    THEN Exc("PermissionError", "system/boot disk")
    ELSE IF disk.is_readonly
    THEN Exc("PermissionError", "read-only")
    ELSE NoExc

\* A gate that also turns away a disk of exactly 64 MiB.
ensure_safe_target_floor_excluded(disk) ==
    IF disk.is_system \/ disk.is_boot
    THEN Exc("PermissionError", "system/boot disk")
    ELSE IF disk.is_readonly
    THEN Exc("PermissionError", "read-only")
    ELSE IF disk.size # 0 /\ disk.size <= 64 * KiBPerMiB
    THEN Exc("ValueError", "too small")
    ELSE NoExc

\* A gate that takes an unknown size (0) for a disk that is too small.
ensure_safe_target_rejecting_unknown_size(disk) ==
    IF disk.is_system \/ disk.is_boot
    THEN Exc("PermissionError", "system/boot disk")
    ELSE IF disk.is_readonly
    THEN Exc("PermissionError", "read-only")
    ELSE IF disk.size < 64 * KiBPerMiB
    THEN Exc("ValueError", "too small")
    ELSE NoExc

ensure_safe_target(disk) ==
    IF disk.is_system \/ disk.is_boot
    THEN Exc("PermissionError", "system/boot disk")
    ELSE IF disk.is_readonly
    THEN Exc("PermissionError", "read-only")
    ELSE IF disk.size # 0 /\ disk.size < 64 * KiBPerMiB
    THEN Exc("ValueError", "too small")
    ELSE NoExc

----------------------------------------------------------------------------
(* Steps of the terminal pipeline (functions called by run_format_pipeline) *)

\* A run_ps caller that starts a failed script a second time.
Started_with_retry(r, x) ==
    IF ~r.started THEN <<>>
    ELSE IF r.exc # NoExc THEN <<x, x>> ELSE <<x>>

\* The scripts that were really started, given run_ps's answer.
Started(r, x) == IF r.started THEN <<x>> ELSE <<>>

dismount_volumes(disk_number, dry_run, proc) ==
    LET script == Script("dismount", disk_number, <<>>)
        r == run_ps(script, dry_run, proc)
    IN [scripts |-> Started(r, script), procs |-> Started(r, proc),
        exc |-> r.exc]

\* clear_and_init: zero-fill first when wipe is "zero-all"; then, whatever
\* the wipe mode, the Set-Disk / Clear-Disk / Initialize-Disk script.
\* A clear_and_init that clears the metadata and initializes the disk before
\* it zero-fills.
clear_and_init_reversed(disk_number, style, wipe, dry_run, proc1, proc2) ==
    LET zero == Script("zero_fill", disk_number, <<>>)
        clear == Script("clear_and_init", disk_number, <<style>>)
        r1 == run_ps(zero, dry_run, proc1)
        r2 == run_ps(clear, dry_run, proc2)
    IN IF r2.exc # NoExc \/ wipe # "zero-all"
       THEN [scripts |-> Started(r2, clear), procs |-> Started(r2, proc2),
             exc |-> r2.exc]
       ELSE [scripts |-> Started(r2, clear) \o Started(r1, zero),
             procs |-> Started(r2, proc2) \o Started(r1, proc1),
             exc |-> r1.exc]

\* A clear_and_init that goes on to clear and initialize the disk after a
\* failed zero-fill.
clear_and_init_after_failed_zero_fill(disk_number, style, wipe, dry_run, proc1, proc2) ==
    LET zero == Script("zero_fill", disk_number, <<>>)
        clear == Script("clear_and_init", disk_number, <<style>>)
        r1 == run_ps(zero, dry_run, proc1)
        r2 == run_ps(clear, dry_run, proc2)
    IN [scripts |-> (IF wipe = "zero-all" THEN Started(r1, zero)
                     ELSE <<>>) \o Started(r2, clear),
        procs |-> (IF wipe = "zero-all" THEN Started(r1, proc1)
                   ELSE <<>>) \o Started(r2, proc2),
        exc |-> r2.exc]

clear_and_init(disk_number, style, wipe, dry_run, proc1, proc2) ==
    LET zero == Script("zero_fill", disk_number, <<>>)
        clear == Script("clear_and_init", disk_number, <<style>>)
        r1 == run_ps(zero, dry_run, proc1)
        r2 == run_ps(clear, dry_run, proc2)
    IN IF wipe = "zero-all" /\ r1.exc # NoExc
       THEN [scripts |-> Started(r1, zero), procs |-> Started(r1, proc1),
             exc |-> r1.exc]
       ELSE [scripts |-> (IF wipe = "zero-all" THEN Started(r1, zero)
                          ELSE <<>>) \o Started(r2, clear),
             procs |-> (IF wipe = "zero-all" THEN Started(r1, proc1)
                        ELSE <<>>) \o Started(r2, proc2),
             exc |-> r2.exc]

\* create_partition_and_format: the drive letter is the last line of stdout,
\* "" when there is no output.
\* A create_partition_and_format that formats with the default cluster size
\* whatever size was resolved.
create_partition_and_format_default_cluster(disk_number, fs, label, cluster, dry_run, proc) ==
    LET script == Script("create_partition_and_format", disk_number,
                         <<fs, label, None>>)
        r == run_ps(script, dry_run, proc)
    IN [scripts |-> Started(r, script), procs |-> Started(r, proc),
        exc |-> r.exc,
        drive_letter |-> IF Len(r.stdout) > 0
                         THEN r.stdout[Len(r.stdout)] ELSE ""]

create_partition_and_format(disk_number, fs, label, cluster, dry_run, proc) ==
    LET script == Script("create_partition_and_format", disk_number,
                         <<fs, label, cluster>>)
        r == run_ps(script, dry_run, proc)
    IN [scripts |-> Started(r, script), procs |-> Started(r, proc),
        exc |-> r.exc,
        drive_letter |-> IF Len(r.stdout) > 0
                         THEN r.stdout[Len(r.stdout)] ELSE ""]

\* verify_volume: False without a drive letter (no query is made), False on
\* empty output, else both the filesystem (case-insensitive) and the label
\* must match.  Output "fs|label" is the pair <<fs, label>>.
\* A verify_volume that compares the filesystem only.
verify_volume_ignoring_label(drive_letter, expected_fs, expected_label, dry_run, proc) ==
    IF drive_letter = ""
    THEN [scripts |-> <<>>, procs |-> <<>>, exc |-> NoExc, ok |-> FALSE]
    ELSE LET script == Script("verify", -1, <<drive_letter>>)
             r == run_ps(script, dry_run, proc)
         IN [scripts |-> Started(r, script), procs |-> Started(r, proc),
             exc |-> r.exc,
             ok |-> /\ r.exc = NoExc
                    /\ Len(r.stdout) = 2
                    /\ UpperFs(r.stdout[1]) = UpperFs(expected_fs)]

verify_volume(drive_letter, expected_fs, expected_label, dry_run, proc) ==
    IF drive_letter = ""
    THEN [scripts |-> <<>>, procs |-> <<>>, exc |-> NoExc, ok |-> FALSE]
    ELSE LET script == Script("verify", -1, <<drive_letter>>)
             r == run_ps(script, dry_run, proc)
         IN [scripts |-> Started(r, script), procs |-> Started(r, proc),
             exc |-> r.exc,
             ok |-> /\ r.exc = NoExc
                    /\ Len(r.stdout) = 2
                    /\ UpperFs(r.stdout[1]) = UpperFs(expected_fs)
                    /\ r.stdout[2] = expected_label]

\* What the file system does with the temporary file: whether open()
\* creates it, whether every write succeeds, the size it reports afterwards
\* (in MiB), and whether os.remove succeeds.
IoOutcome(write, remove_ok) == [write |-> write, remove_ok |-> remove_ok]

\* The temporary file as the volume holds it; sizes in MiB.
NoFile == [exists |-> FALSE, written |-> 0, on_disk |-> 0]

\* for _ in range(size_mb): total += len(chunk)
TotalWritten(size_mb) == IF size_mb > 0 THEN size_mb ELSE 0

\* test_io: (ok, message), and the temporary file as it is left behind.
\* open() or a write may raise (message str(e)); getsize may differ from
\* the bytes written; the finally block removes the file when it exists and
\* swallows a failure of os.remove.
test_io(drive_letter, size_mb, dry_run, io) ==
    IF dry_run
    THEN [scripts |-> <<>>, procs |-> <<>>, ok |-> TRUE,
          message |-> "dry-run", file |-> NoFile]
    ELSE IF drive_letter = ""
    THEN [scripts |-> <<>>, procs |-> <<>>, ok |-> FALSE,
          message |-> "No drive letter available", file |-> NoFile]
    ELSE LET total == TotalWritten(size_mb)
             created == io.write # "open_error"
             on_disk == IF io.write = "ok" THEN total
                        ELSE IF created /\ total > 0 THEN total - 1 ELSE 0
         IN [scripts |-> <<Script("io_test", -1, <<drive_letter>>)>>,
             procs |-> <<Proc(IF io.write = "ok" THEN 0 ELSE 1, <<>>,
                              io.write)>>,
             ok |-> io.write = "ok",
             message |-> CASE io.write = "ok" -> "OK"
                           [] io.write = "size_mismatch" -> "Size mismatch"
                           [] OTHER -> "write error",
             file |-> [exists |-> created /\ ~io.remove_ok,
                       written |-> IF io.write \in {"ok", "size_mismatch"}
                                   THEN total ELSE 0,
                       on_disk |-> on_disk]]

\* f"I/O test failed: {msg}"
IoTestFailed(msg) ==
    CASE msg = "No drive letter available"
           -> "I/O test failed: No drive letter available"
      [] msg = "Size mismatch" -> "I/O test failed: Size mismatch"
      [] OTHER -> "I/O test failed: write error"

\* The name Windows reports for a volume's filesystem.
VolumeFs(fs) == IF UpperFs(fs) = "EXFAT" THEN "exFAT" ELSE fs

VerifyOutputs(fs, label) ==
    {<<VolumeFs(fs), label>>, <<"NTFS", label>>,
     <<VolumeFs(fs), <<"X">>>>, <<>>}

----------------------------------------------------------------------------
(* Options and the result record *)

Has(f) == f \in DOMAIN args
Read(f, v) == (f :> v) @@ args

FsChoices == {"AUTO", "FAT32", "exFAT"}
ClusterArg(auto, n) == [auto |-> auto, n |-> n]
\* --cluster: not given, "AUTO", an explicit size, a non-positive integer
ClusterChoices ==
    {ClusterArg(FALSE, 0), ClusterArg(TRUE, 0), ClusterArg(FALSE, 65536),
     ClusterArg(FALSE, -1)}
WipeModes == {"none", "metadata", "zero-all"}
RawLabels == {<<"a", "b">>, <<"a", "'", "b", " ">>}
\* args.skip_verify: parse_args defines no such option (None: no attribute)
SkipVerifyChoices == {None, Some(TRUE), Some(FALSE)}

ConfirmToken(n) == <<"CONFIRM-", n>>
TypedTokens(n) == {ConfirmToken(n), ConfirmToken(n + 1), <<>>}

NoPolicy == [fs |-> "", label |-> <<>>, cluster |-> None, style |-> ""]

NoResult ==
    [disk |-> -1, size |-> 0, fs |-> "", style |-> "", label |-> <<>>,
     cluster |-> None, wipe |-> "", camera_compat |-> FALSE,
     dry_run |-> FALSE, steps |-> <<>>, drive_letter |-> Absent,
     verify |-> Absent, test_io |-> None, status |-> Absent,
     error |-> Absent]

\* No window: the programs above have none.
NoWindow == [rows |-> <<>>, currentRow |-> -1, label |-> <<>>,
             progress |-> -1, log |-> 0, pending |-> <<>>]

----------------------------------------------------------------------------
(* Initial states *)

InitRun(p, start) ==
    /\ prog = p
    /\ machine \in Machines
    /\ before = machine
    /\ args = <<>>
    /\ pc = start
    /\ disks = <<>>
    /\ target = None
    /\ policy = NoPolicy
    /\ result = NoResult
    /\ raised = NoExc
    /\ issued = <<>>
    /\ outcomes = <<>>
    /\ dl = ""
    /\ tmp = NoFile
    /\ window = NoWindow /\ workers = <<>>
    /\ cancel_point = None
    /\ size_bytes = None
    /\ step = 0
    /\ cancelled = FALSE
    /\ emitted = <<>>
    /\ signals = <<>>

InitTerminal == InitRun("terminal", "list_disks")

----------------------------------------------------------------------------
(* run_format_pipeline, terminal program *)

\* An exception outside the try block leaves run_format_pipeline.
Raise(e) ==
    /\ raised' = e
    /\ pc' = "raised"

\* except Exception as e: status ERROR, error str(e), return result
\* An except block that hands back a fresh record instead of the partial
\* result.
Fail_discarding_steps(res, e) ==
    /\ result' = [res EXCEPT !.steps = <<>>, !.status = "ERROR",
                             !.error = e.msg]
    /\ pc' = "returned"

\* An except block that sets the status and forgets the message.
Fail_without_error(res, e) ==
    /\ result' = [res EXCEPT !.status = "ERROR"]
    /\ pc' = "returned"

Fail(res, e) ==
    /\ result' = [res EXCEPT !.status = "ERROR", !.error = e.msg]
    /\ pc' = "returned"

\* disks = list_disks(logger, dry_run=args.dry_run)
T_list_disks ==
    /\ prog = "terminal" /\ pc = "list_disks"
    /\ \E dry_run \in BOOLEAN, proc \in ProcOutcomes({ConvertToJson(machine)}) :
         LET script == Script("enumerate", -1, <<>>)
             r == run_ps(script, dry_run, proc)
         IN /\ args' = Read("dry_run", dry_run)
            /\ issued' = issued \o Started(r, script)
            /\ outcomes' = outcomes \o Started(r, proc)
            /\ IF r.exc # NoExc
               THEN Raise(r.exc) /\ UNCHANGED disks
               ELSE /\ disks' = list_disks(r.stdout)
                    /\ pc' = "lookup"
                    /\ UNCHANGED raised
    /\ UNCHANGED <<prog, tmp, base_vars, cancel_point, machine, before, target, policy, result, dl,
                   gui_vars>>

\* target = next(...); if not target: raise ValueError
T_lookup ==
    /\ prog = "terminal" /\ pc = "lookup"
    /\ \E n \in RequestedDisks :
         /\ args' = Read("disk", n)
         /\ target' = FindDisk(disks, n)
         /\ IF target' = None
            THEN Raise(Exc("ValueError", "Disk not found"))
            ELSE pc' = "ensure_safe" /\ UNCHANGED raised
    /\ UNCHANGED <<prog, tmp, base_vars, cancel_point, machine, before, disks, policy, result, issued, outcomes,
                   dl, gui_vars>>

\* A pipeline that dismounts the target's volumes before it asks the gate.
T_ensure_safe_after_dismount ==
    /\ prog = "terminal" /\ pc = "ensure_safe"
    /\ \E proc \in ProcOutcomes({<<>>}) :
         LET r == dismount_volumes(target[1].number, args.dry_run, proc)
             e == ensure_safe_target(target[1])
         IN /\ issued' = issued \o r.scripts
            /\ outcomes' = outcomes \o r.procs
            /\ IF e # NoExc
               THEN Raise(e)
               ELSE pc' = "resolve" /\ UNCHANGED raised
    /\ UNCHANGED <<prog, tmp, base_vars, cancel_point, machine, before, args, disks, target, policy,
                   result, dl, gui_vars>>

T_ensure_safe ==
    /\ prog = "terminal" /\ pc = "ensure_safe"
    /\ LET e == ensure_safe_target(target[1])
       IN IF e # NoExc
          THEN Raise(e)
          ELSE pc' = "resolve" /\ UNCHANGED raised
    /\ UNCHANGED <<prog, tmp, base_vars, cancel_point, machine, before, args, disks, target, policy, result,
                   issued, outcomes, dl, gui_vars>>

\* Filesystem selection, label sanitization, cluster selection, style.
ResolvePolicy(size, a_fs, a_label, camera_compat, a_cluster, gpt) ==
    LET fs == IF UpperFs(a_fs) = "AUTO" THEN suggest_fs(size)
              ELSE UpperFs(a_fs)
    IN [fs |-> fs,
        label |-> sanitize_label(a_label, fs, camera_compat),
        cluster |-> IF a_cluster.auto THEN Some(suggest_cluster(fs, size))
                    ELSE IF a_cluster.n # 0 THEN Some(a_cluster.n)
                    ELSE None,
        style |-> IF gpt THEN "GPT" ELSE "MBR"]

T_resolve ==
    /\ prog = "terminal" /\ pc = "resolve"
    /\ \E a_fs \in FsChoices, a_label \in RawLabels, cc \in BOOLEAN,
          a_cluster \in ClusterChoices, gpt \in BOOLEAN :
         /\ args' = [fs |-> a_fs, label |-> a_label, camera_compat |-> cc,
                     cluster |-> a_cluster, gpt |-> gpt] @@ args
         /\ IF ~a_cluster.auto /\ a_cluster.n < 0
            THEN /\ Raise(Exc("ValueError",
                              "Cluster size must be a positive integer."))
                 /\ UNCHANGED policy
            ELSE /\ policy' = ResolvePolicy(target[1].size, a_fs, a_label,
                                            cc, a_cluster, gpt)
                 /\ pc' = "confirm"
                 /\ UNCHANGED raised
    /\ UNCHANGED <<prog, tmp, base_vars, cancel_point, machine, before, disks, target, result, issued, outcomes,
                   dl, gui_vars>>

\* if not args.yes: conf = input(...); mismatch raises RuntimeError
\* A confirmation that accepts any token that was typed.
Confirmed_by_any_token(yes, typed, number) == yes \/ typed # <<>>

Confirmed(yes, typed, number) == yes \/ typed = ConfirmToken(number)

NewResult(t, pol, a) ==
    [NoResult EXCEPT !.disk = t.number, !.size = t.size, !.fs = pol.fs,
                     !.style = pol.style, !.label = pol.label,
                     !.cluster = pol.cluster, !.wipe = a.wipe,
                     !.camera_compat = a.camera_compat,
                     !.dry_run = a.dry_run]

T_confirm ==
    /\ prog = "terminal" /\ pc = "confirm"
    /\ \E yes \in BOOLEAN, typed \in TypedTokens(target[1].number),
          wipe \in WipeModes :
         IF Confirmed(yes, typed, target[1].number)
         THEN /\ args' = (IF yes THEN [yes |-> yes, wipe |-> wipe]
                          ELSE [yes |-> yes, typed |-> typed, wipe |-> wipe])
                         @@ args
              /\ result' = NewResult(target[1], policy, args')
              /\ pc' = "dismount"
              /\ UNCHANGED raised
         ELSE /\ args' = [yes |-> yes, typed |-> typed] @@ args
              /\ Raise(Exc("RuntimeError", "Confirmation mismatch"))
              /\ UNCHANGED result
    /\ UNCHANGED <<prog, tmp, base_vars, cancel_point, machine, before, disks, target, policy, issued,
                   outcomes, dl, gui_vars>>

T_dismount ==
    /\ prog = "terminal" /\ pc = "dismount"
    /\ \E proc \in ProcOutcomes({<<>>}) :
         LET r == dismount_volumes(target[1].number, args.dry_run, proc)
         IN /\ issued' = issued \o r.scripts
            /\ outcomes' = outcomes \o r.procs
            /\ IF r.exc # NoExc
               THEN Fail(result, r.exc)
               ELSE /\ result' = [result EXCEPT
                                    !.steps = Append(@, "dismount_volumes")]
                    /\ pc' = "clear_and_init"
    /\ UNCHANGED <<prog, tmp, base_vars, cancel_point, machine, before, args, disks, target, policy, raised,
                   dl, gui_vars>>

T_clear_and_init ==
    /\ prog = "terminal" /\ pc = "clear_and_init"
    /\ \E proc1, proc2 \in ProcOutcomes({<<>>}), partial \in BOOLEAN :
         LET r == clear_and_init(target[1].number, policy.style, args.wipe,
                                 args.dry_run, proc1, proc2)
         IN /\ issued' = issued \o r.scripts
            /\ outcomes' = outcomes \o r.procs
            /\ IF r.exc # NoExc
               THEN /\ Fail(result, r.exc)
                    /\ machine' = IF partial /\ r.scripts # <<>>
                                  THEN SetLetters(machine, target[1].number, <<>>)
                                  ELSE machine
               ELSE /\ result' = [result EXCEPT
                                    !.steps = Append(@, "clear_and_init")]
                    /\ pc' = "create"
                    /\ machine' = IF r.scripts # <<>>
                                  THEN SetLetters(machine, target[1].number, <<>>)
                                  ELSE machine
    /\ UNCHANGED <<prog, tmp, base_vars, cancel_point, before, args, disks, target, policy, raised, dl,
                   gui_vars>>

LetterOutputs == {<<"E">>, <<>>}

T_create ==
    /\ prog = "terminal" /\ pc = "create"
    /\ \E proc \in ProcOutcomes(LetterOutputs) :
         LET r == create_partition_and_format(target[1].number, policy.fs,
                     policy.label, policy.cluster, args.dry_run, proc)
         IN /\ issued' = issued \o r.scripts
            /\ outcomes' = outcomes \o r.procs
            /\ IF r.exc # NoExc
               THEN Fail(result, r.exc) /\ UNCHANGED <<dl, machine>>
               ELSE /\ dl' = r.drive_letter
                    /\ result' = [result EXCEPT
                          !.drive_letter = r.drive_letter,
                          !.steps = Append(@, "create_partition_and_format")]
                    /\ machine' = IF r.scripts # <<>> /\ r.drive_letter # ""
                                  THEN SetLetters(machine, target[1].number,
                                                  <<r.drive_letter>>)
                                  ELSE machine
                    /\ pc' = "verify"
    /\ UNCHANGED <<prog, tmp, base_vars, cancel_point, before, args, disks, target, policy, raised,
                   gui_vars>>

\* if not args.skip_verify: ...
T_verify ==
    /\ prog = "terminal" /\ pc = "verify"
    /\ \E skip \in SkipVerifyChoices,
          proc \in ProcOutcomes(VerifyOutputs(policy.fs, policy.label)) :
         /\ args' = Read("skip_verify", skip)
         /\ IF skip = None
            THEN /\ Fail(result, Exc("AttributeError",
                                     "no attribute 'skip_verify'"))
                 /\ UNCHANGED <<issued, outcomes>>
            ELSE IF skip[1]
            THEN /\ pc' = "test_io"
                 /\ UNCHANGED <<result, issued, outcomes>>
            ELSE LET r == verify_volume(dl, policy.fs, policy.label,
                                        args.dry_run, proc)
                     res == [result EXCEPT
                               !.verify = IF r.ok THEN "OK" ELSE "FAILED"]
                 IN /\ issued' = issued \o r.scripts
                    /\ outcomes' = outcomes \o r.procs
                    /\ IF r.exc # NoExc
                       THEN Fail(result, r.exc)
                       ELSE IF ~r.ok
                       THEN Fail(res, Exc("RuntimeError",
                                          "Post-format verification failed."))
                       ELSE result' = res /\ pc' = "test_io"
    /\ UNCHANGED <<prog, tmp, base_vars, cancel_point, machine, before, disks, target, policy, raised, dl,
                   gui_vars>>

\* --test-io-size: the default, zero, a negative number (argparse type=int)
TestIoSizes == {8, 0, -1}

\* A size mismatch or a failed write needs something to write.
IoOutcomes(size_mb) ==
    {IoOutcome(w, r) :
        w \in IF size_mb > 0
              THEN {"ok", "size_mismatch", "write_error", "open_error"}
              ELSE {"ok", "open_error"},
        r \in BOOLEAN}

\* if args.test_io: ...; then status OK
T_test_io ==
    /\ prog = "terminal" /\ pc = "test_io"
    /\ \E do_test \in BOOLEAN, size_mb \in TestIoSizes :
         IF do_test
         THEN \E io \in IoOutcomes(size_mb) :
                LET letter == IF result.drive_letter = Absent THEN ""
                              ELSE result.drive_letter
                    r == test_io(letter, size_mb, args.dry_run, io)
                    res == [result EXCEPT !.test_io =
                              Some([ok |-> r.ok, message |-> r.message,
                                    size_mb |-> size_mb])]
                IN /\ args' = [test_io |-> do_test, test_io_size |-> size_mb]
                              @@ args
                   /\ issued' = issued \o r.scripts
                   /\ outcomes' = outcomes \o r.procs
                   /\ tmp' = r.file
                   /\ IF ~r.ok
                      THEN Fail(res, Exc("RuntimeError",
                                         IoTestFailed(r.message)))
                      ELSE /\ result' = [res EXCEPT !.status = "OK"]
                           /\ pc' = "returned"
         ELSE /\ args' = Read("test_io", do_test)
              /\ result' = [result EXCEPT !.status = "OK"]
              /\ pc' = "returned"
              /\ UNCHANGED <<issued, outcomes, tmp>>
    /\ UNCHANGED <<prog, machine, before, disks, target, policy, raised, dl,
                   gui_vars, base_vars, cancel_point>>

TerminalNext ==
    \/ T_list_disks
    \/ T_lookup
    \/ T_ensure_safe
    \/ T_resolve
    \/ T_confirm
    \/ T_dismount
    \/ T_clear_and_init
    \/ T_create
    \/ T_verify
    \/ T_test_io

----------------------------------------------------------------------------
(* FormatWorker, GUI program (sdFormatterGUI.py) *)

InitGui == InitRun("gui", "g_start")

\* run_powershell_json + list_disks of the GUI: an exception for a non-zero
\* exit, else one DiskInfo per returned object.
gui_list_disks(proc) ==
    IF proc.rc # 0
    THEN [exc |-> Exc("RuntimeError", IF proc.stderr = ""
                                      THEN "Errore PowerShell sconosciuto."
                                      ELSE proc.stderr),
          disks |-> <<>>]
    ELSE [exc |-> NoExc, disks |-> list_disks(proc.stdout)]

\* size_bytes = next((d.size ...), None), None on any exception
GuiSizeBytes(proc, disk) ==
    LET r == gui_list_disks(proc)
        d == FindDisk(r.disks, disk)
    IN IF r.exc # NoExc \/ d = None THEN None ELSE Some(d[1].size)

GuiFsChoices == {"AUTO", "FAT32", "exFAT", "NTFS"}
ClusterLabel(auto, kb) == [auto |-> auto, kb |-> kb]
\* "Auto", "4 KB"
ClusterLabels == {ClusterLabel(TRUE, 0), ClusterLabel(FALSE, 4)}
GuiLabels == {<<>>, <<"a", "b">>}

cluster_bytes_from_label(label) ==
    IF label.auto THEN None ELSE Some(label.kb * 1024)

FitsFat32(size) == size # None /\ size[1] <= 32 * KiBPerGiB

\* Lines 208-221: AUTO resolution, then the camera override.
GuiResolveFs(size, a_fs, cam_compat) ==
    LET fs0 == UpperFs(a_fs)
        fs1 == IF fs0 = "AUTO"
               THEN (IF FitsFat32(size) THEN "FAT32" ELSE "exFAT")
               ELSE fs0
    IN IF cam_compat /\ FitsFat32(size) THEN "FAT32" ELSE fs1

GuiResolveCluster(cam_compat, cluster_label) ==
    IF cam_compat THEN Some(32 * 1024)
    ELSE cluster_bytes_from_label(cluster_label)

\* Lines 223-225: FAT32 is refused above 32 GB or with an unknown size.
GuiPolicyViolation(fs, size) == fs = "FAT32" /\ ~FitsFat32(size)

\* self.failed.emit(str(e)) in run()
G_Failed(e) ==
    /\ raised' = e
    /\ signals' = Append(signals, "failed")
    /\ pc' = "g_done"

Cancelled == Exc("RuntimeError", "Operazione annullata dall'utente.")

\* Lines 191-206
G_start ==
    /\ prog = "gui" /\ pc = "g_start"
    /\ \E n \in RequestedDisks, proc \in ProcOutcomes({ConvertToJson(machine)}) :
         /\ args' = Read("disk", n)
         /\ size_bytes' = GuiSizeBytes(proc, n)
         /\ outcomes' = Append(outcomes, proc)
    /\ issued' = Append(issued, Script("enumerate", -1, <<>>))
    /\ pc' = "g_resolve"
    /\ UNCHANGED <<prog, tmp, base_vars, cancel_point, machine, before, disks, target, policy, result,
                   raised, dl, step, cancelled, emitted, signals>>

\* Lines 208-225
G_resolve ==
    /\ prog = "gui" /\ pc = "g_resolve"
    /\ \E a_fs \in GuiFsChoices, cam \in BOOLEAN, cl \in ClusterLabels :
         LET fs == GuiResolveFs(size_bytes, a_fs, cam)
         IN /\ args' = [fs |-> a_fs, cam_compat |-> cam, cluster_label |-> cl]
                       @@ args
            /\ policy' = [NoPolicy EXCEPT !.fs = fs, !.style = "MBR",
                            !.cluster = GuiResolveCluster(cam, cl)]
            /\ IF GuiPolicyViolation(fs, size_bytes)
               THEN G_Failed(Exc("RuntimeError", "FAT32 oltre 32 GB"))
               ELSE pc' = "g_step0" /\ UNCHANGED <<raised, signals>>
    /\ UNCHANGED <<prog, tmp, base_vars, cancel_point, machine, before, disks, target, result, issued,
                   outcomes, dl, size_bytes, step, cancelled, emitted>>

\* A first step that does not look at the cancellation flag.
G_step0_without_check ==
    /\ prog = "gui" /\ pc = "g_step0"
    /\ emitted' = Append(emitted, 0)
    /\ pc' = "g_begin" /\ step' = 1 /\ UNCHANGED <<raised, signals>>
    /\ UNCHANGED <<prog, tmp, base_vars, cancel_point, machine, before, args, disks, target, policy, result,
                   issued, outcomes, dl, size_bytes, cancelled>>

\* Lines 227-229: the summary, percent 0, first cancellation check
G_step0 ==
    /\ prog = "gui" /\ pc = "g_step0"
    /\ emitted' = Append(emitted, 0)
    /\ IF cancelled
       THEN G_Failed(Cancelled) /\ UNCHANGED step
       ELSE pc' = "g_begin" /\ step' = 1 /\ UNCHANGED <<raised, signals>>
    /\ UNCHANGED <<prog, tmp, base_vars, cancel_point, machine, before, args, disks, target, policy, result,
                   issued, outcomes, dl, size_bytes, cancelled>>

\* Percent values that fall back at the third step.
StepPercent_falling_back(k) ==
    CASE k = 1 -> 10 [] k = 2 -> 25 [] k = 3 -> 20 [] k = 4 -> 55
      [] OTHER -> 80

StepPercent(k) ==
    CASE k = 1 -> 10 [] k = 2 -> 25 [] k = 3 -> 40 [] k = 4 -> 55
      [] OTHER -> 80

\* The command of step k (ps1 .. ps5).
StepScript(k, a, pol, letter) ==
    CASE k = 1 -> Script("set_disk", a.disk, <<>>)
      [] k = 2 -> Script("clear_disk", a.disk, <<a.deep_clean>>)
      [] k = 3 -> Script("initialize_disk", a.disk, <<"MBR">>)
      [] k = 4 -> Script("new_partition", a.disk, <<>>)
      [] OTHER -> Script("format_volume", -1,
                         <<letter, pol.fs, a.label, pol.cluster>>)

\* "if not dry_run:" in front of every command
StepCommands(k, a, pol, letter) ==
    IF a.dry_run THEN <<>> ELSE <<StepScript(k, a, pol, letter)>>

\* The options a step reads first.
StepOptions(k) ==
    CASE k = 1 -> {[dry_run |-> d] : d \in BOOLEAN}
      [] k = 2 -> {[deep_clean |-> d] : d \in BOOLEAN}
      [] k = 5 -> {[label |-> l] : l \in GuiLabels}
      [] OTHER -> {<<>>}

\* A step begins: its message and percent are emitted and, unless dry-run,
\* its command is started.
G_begin ==
    /\ prog = "gui" /\ pc = "g_begin"
    /\ \E o \in StepOptions(step) :
         /\ args' = o @@ args
         /\ issued' = issued \o StepCommands(step, args', policy, dl)
    /\ emitted' = Append(emitted, StepPercent(step))
    /\ pc' = "g_run"
    /\ UNCHANGED <<prog, tmp, base_vars, cancel_point, machine, before, disks, target, policy, result,
                   raised, outcomes, dl, size_bytes, step, cancelled, signals>>

\* drive_letter = (cp.stdout.strip() or "X").replace(":", "")
ParseDriveLetter(stdout) == IF Len(stdout) = 0 THEN <<"X">> ELSE stdout

GuiLetterOutputs == {<<"E">>, <<>>, <<"E", "F">>}

StepOutputs(k) == IF k = 4 THEN GuiLetterOutputs ELSE {<<>>}

DiskExists(m, n) == MachineDisk(m, n) # None

\* What a completed command of step k does to the disk.
StepEffect(m, k, n, letter) ==
    CASE k = 1 -> [i \in DOMAIN m |->
                     IF m[i].number = n
                     THEN [m[i] EXCEPT !.is_readonly = FALSE] ELSE m[i]]
      [] k = 2 -> SetLetters(m, n, <<>>)
      [] k = 4 -> SetLetters(m, n, letter)
      [] OTHER -> m

\* The step's command returns (when one was started), then _check_cancel().
G_end ==
    /\ prog = "gui" /\ pc = "g_run"
    /\ IF args.dry_run
       THEN /\ dl' = IF step = 4 THEN "Z" ELSE dl
            /\ IF cancelled
               THEN G_Failed(Cancelled) /\ UNCHANGED step
               ELSE /\ pc' = IF step = 5 THEN "g_finish" ELSE "g_begin"
                    /\ step' = step + 1
                    /\ UNCHANGED <<raised, signals>>
            /\ UNCHANGED <<machine, outcomes>>
       ELSE \E proc \in (IF DiskExists(machine, args.disk)
                         THEN ProcOutcomes(StepOutputs(step)) ELSE Failures) :
              LET letter == ParseDriveLetter(proc.stdout)
              IN /\ outcomes' = Append(outcomes, proc)
                 /\ IF proc.rc # 0
                    THEN /\ G_Failed(Exc("RuntimeError",
                                         IF proc.stderr = "" THEN "Errore"
                                         ELSE proc.stderr))
                         /\ UNCHANGED <<step, dl, machine>>
                    ELSE IF step = 4 /\ Len(letter) # 1
                    THEN /\ G_Failed(Exc("RuntimeError",
                                         "Lettera unita non valida"))
                         /\ UNCHANGED <<step, dl>>
                         /\ machine' = StepEffect(machine, step, args.disk, letter)
                    ELSE /\ dl' = IF step = 4 THEN letter[1] ELSE dl
                         /\ machine' = StepEffect(machine, step, args.disk, letter)
                         /\ IF cancelled
                            THEN G_Failed(Cancelled) /\ UNCHANGED step
                            ELSE /\ pc' = IF step = 5 THEN "g_finish"
                                          ELSE "g_begin"
                                 /\ step' = step + 1
                                 /\ UNCHANGED <<raised, signals>>
    /\ UNCHANGED <<prog, tmp, base_vars, cancel_point, before, args, disks, target, policy, result, issued,
                   size_bytes, cancelled, emitted>>

\* Lines 294-303
G_finish ==
    /\ prog = "gui" /\ pc = "g_finish"
    /\ emitted' = Append(emitted, 100)
    /\ signals' = Append(signals, "finished")
    /\ result' = [NoResult EXCEPT !.status = "OK", !.disk = args.disk,
                    !.fs = policy.fs, !.label = args.label,
                    !.drive_letter = dl, !.dry_run = args.dry_run]
    /\ pc' = "g_done"
    /\ UNCHANGED <<prog, tmp, base_vars, cancel_point, machine, before, args, disks, target, policy, raised,
                   issued, outcomes, dl, size_bytes, step, cancelled>>

\* cancel(), called from the UI thread at any moment of the run
G_cancel ==
    /\ prog = "gui" /\ pc # "g_done"
    /\ ~cancelled
    /\ cancelled' = TRUE
    /\ cancel_point' = Some([pc |-> pc, issued |-> Len(issued)])
    /\ UNCHANGED <<prog, tmp, base_vars, machine, before, args, pc, disks, target, policy,
                   result, raised, issued, outcomes, dl, size_bytes, step,
                   emitted, signals>>

GuiNext ==
    \/ G_start
    \/ G_resolve
    \/ G_step0
    \/ G_begin
    \/ G_end
    \/ G_finish
    \/ G_cancel

----------------------------------------------------------------------------
(* Specification: one run of one of the two programs *)

Init == InitTerminal \/ InitGui
Next == TerminalNext \/ GuiNext
Spec == Init /\ [][Next]_vars

----------------------------------------------------------------------------
(* Specification: one call of one of the pure functions *)

\* Longest run of free characters at the end of a label.
MaxTail == 3

Rep(c, n) == [i \in 1..n |-> c]

\* Characters a label is made of: one of each class the code tells apart.
LabelChars ==
    {"A", "a", " ", ".", "'", "\"", "<", "\t", "<e-acute>", "_"}

\* Labels: a run of "A" up to the truncation lengths, then free characters;
\* and the default label itself.
LabelPads == {0, CameraLabelMax - 1, CameraLabelMax, LabelMax - 1, LabelMax}
LabelTails == UNION {[1..n -> LabelChars] : n \in 0..MaxTail}
LabelInputs ==
    {Rep("A", n) \o t : n \in LabelPads, t \in LabelTails} \cup {DefaultLabel}

\* Sizes around the floor of the safety gate, 0 for an unknown size.
GateSizes ==
    {0, 1, 64 * KiBPerMiB - 1, 64 * KiBPerMiB, 64 * KiBPerMiB + 1, 31250000}
GateDisks ==
    {Disk(CardNumber, s, sys, boot, ro, <<>>) :
        s \in GateSizes, sys \in BOOLEAN, boot \in BOOLEAN, ro \in BOOLEAN}

\* Sizes around every threshold of the policy, from 0 to 512 GiB.
PolicySizes ==
    {g * KiBPerGiB + d : g \in {4, 8, 16, 32, 64, 256}, d \in {-1, 0, 1}}
    \cup {0, 512 * KiBPerGiB}
PolicyFs == {"FAT32", "exFAT", "EXFAT"}

\* Most disks one enumeration returns.
MaxListed == 2

\* What a disk holds: the drive letter of each partition and of each volume
\* ("" for none). No partition; a partition without a volume; a volume
\* without a letter; a mounted volume; a mounted and an unmounted volume.
ListShapes ==
    {[parts |-> <<>>, vols |-> <<>>],
     [parts |-> <<"">>, vols |-> <<>>],
     [parts |-> <<"">>, vols |-> <<"">>],
     [parts |-> <<"E">>, vols |-> <<"E">>],
     [parts |-> <<"E", "">>, vols |-> <<"E", "">>]}

\* The disks of Get-Disk, in the order it returns them.
ListCatalogs ==
    UNION {[1..k -> {[number |-> n, shape |-> s] :
                        n \in {0, CardNumber}, s \in ListShapes}] :
             k \in 0..MaxListed}

FnInputs ==
    {[fn |-> "list_disks", variant |-> v, catalog |-> c] :
        v \in {"terminal", "gui"}, c \in ListCatalogs}
    \cup
    {[fn |-> "ensure_safe_target", disk |-> d] : d \in GateDisks}
    \cup {[fn |-> "suggest_fs", bytes_size |-> s] : s \in PolicySizes}
    \cup {[fn |-> "suggest_cluster", fs |-> f, bytes_size |-> s] :
             f \in PolicyFs, s \in PolicySizes}
    \cup {[fn |-> "sanitize_label", variant |-> v, label |-> l,
           camera_compat |-> c] :
             v \in {"en", "it"}, l \in LabelInputs, c \in BOOLEAN}

FnInit ==
    /\ prog = "fn"
    /\ pc = "call"
    /\ args \in FnInputs
    /\ result = <<>>
    /\ machine = <<>> /\ before = <<>> /\ disks = <<>>
    /\ target = None /\ policy = NoPolicy /\ raised = NoExc
    /\ issued = <<>> /\ outcomes = <<>> /\ dl = "" /\ tmp = NoFile
    /\ window = NoWindow /\ workers = <<>>
    /\ cancel_point = None
    /\ size_bytes = None /\ step = 0 /\ cancelled = FALSE
    /\ emitted = <<>> /\ signals = <<>>

\* The function returns: its value is appended to result.
Return(v, next) ==
    /\ result' = Append(result, v)
    /\ pc' = next
    /\ UNCHANGED <<prog, tmp, base_vars, cancel_point, machine, before, args, disks, target, policy,
                   raised, issued, outcomes, dl, gui_vars>>

F_ensure_safe_target ==
    /\ prog = "fn" /\ pc = "call" /\ args.fn = "ensure_safe_target"
    /\ Return(ensure_safe_target(args.disk), "done")

F_suggest_fs ==
    /\ prog = "fn" /\ pc = "call" /\ args.fn = "suggest_fs"
    /\ Return(suggest_fs(args.bytes_size), "done")

F_suggest_cluster ==
    /\ prog = "fn" /\ pc = "call" /\ args.fn = "suggest_cluster"
    /\ Return(suggest_cluster(args.fs, args.bytes_size), "done")

SanitizeLabel(variant, label, camera_compat) ==
    IF variant = "en" THEN sanitize_label(label, "FAT32", camera_compat)
    ELSE sanitize_label_it(label, "FAT32", camera_compat)

F_sanitize_label ==
    /\ prog = "fn" /\ pc = "call" /\ args.fn = "sanitize_label"
    /\ Return(SanitizeLabel(args.variant, args.label, args.camera_compat),
              "again")

\* The label that came back is sanitized once more.
F_sanitize_again ==
    /\ prog = "fn" /\ pc = "again"
    /\ Return(SanitizeLabel(args.variant, result[1], args.camera_compat),
              "done")

\* The drive letters the queries give for one disk. Terminal program: the
\* partition query, then the volume query only "if parts". GUI program: the
\* letters of the partitions that have one, collected by the script.
QueriedLetters(variant, shape) ==
    IF variant = "terminal"
    THEN (IF AsList(ps_json(ConvertToJson(shape.parts))) = <<>> THEN <<>>
          ELSE AsList(ps_json(ConvertToJson(shape.vols))))
    ELSE AsList(ConvertToJson(SelectSeq(shape.parts, LAMBDA l : l # "")))

\* Standard output of the enumeration for a catalog.
EnumerationOutput(variant, catalog) ==
    ConvertToJson([i \in DOMAIN catalog |->
        Disk(catalog[i].number, 31250000, FALSE, FALSE, FALSE,
             QueriedLetters(variant, catalog[i].shape))])

F_list_disks ==
    /\ prog = "fn" /\ pc = "call" /\ args.fn = "list_disks"
    /\ LET stdout == EnumerationOutput(args.variant, args.catalog)
       IN IF args.variant = "terminal"
          THEN Return(list_disks(stdout), "done")
          ELSE Return(gui_list_disks(Proc(0, stdout, "")).disks, "done")

FnNext ==
    \/ F_list_disks
    \/ F_ensure_safe_target
    \/ F_suggest_fs
    \/ F_suggest_cluster
    \/ F_sanitize_label
    \/ F_sanitize_again

FnSpec == FnInit /\ [][FnNext]_vars

FnReturned(fn) == prog = "fn" /\ pc = "done" /\ args.fn = fn

----------------------------------------------------------------------------
(* Specification: the terminal program from main *)

\* One machine is enough for the launcher: a safe 32 GB card, alone.
MainMachines ==
    {<<Disk(CardNumber, 31250000, FALSE, FALSE, FALSE, <<"E">>)>>}

MainInit ==
    /\ prog = "terminal"
    /\ pc = "main"
    /\ machine \in MainMachines
    /\ before = machine
    /\ args = <<>> /\ result = NoResult
    /\ disks = <<>> /\ target = None /\ policy = NoPolicy /\ raised = NoExc
    /\ issued = <<>> /\ outcomes = <<>> /\ dl = "" /\ tmp = NoFile
    /\ window = NoWindow /\ workers = <<>>
    /\ cancel_point = None
    /\ size_bytes = None /\ step = 0 /\ cancelled = FALSE
    /\ emitted = <<>> /\ signals = <<>>

\* sys.exit(code), and sys.exit(main()) for a code that main returns
SystemExit(code) == Exc("SystemExit", code)

Exit(code) ==
    /\ raised' = SystemExit(code)
    /\ pc' = "exited"

\* os.name != "nt": return 3; then parse_args and the --list / --info test
M_start ==
    /\ prog = "terminal" /\ pc = "main"
    /\ \E windows \in BOOLEAN, list \in BOOLEAN :
         IF ~windows
         THEN Exit("3") /\ UNCHANGED args
         ELSE /\ args' = Read("list", list)
              /\ pc' = IF list THEN "list" ELSE "elevate"
              /\ UNCHANGED raised
    /\ UNCHANGED <<prog, tmp, base_vars, cancel_point, machine, before, disks, target, policy, result,
                   issued, outcomes, dl, gui_vars>>

\* --list / --info: list_disks, print, return 0 (no elevation required)
M_list ==
    /\ prog = "terminal" /\ pc = "list"
    /\ \E dry_run \in BOOLEAN, proc \in ProcOutcomes({ConvertToJson(machine)}) :
         LET script == Script("enumerate", -1, <<>>)
             r == run_ps(script, dry_run, proc)
         IN /\ args' = Read("dry_run", dry_run)
            /\ issued' = issued \o Started(r, script)
            /\ outcomes' = outcomes \o Started(r, proc)
            /\ IF r.exc # NoExc
               THEN Raise(r.exc) /\ UNCHANGED disks
               ELSE disks' = list_disks(r.stdout) /\ Exit("0")
    /\ UNCHANGED <<prog, tmp, base_vars, cancel_point, machine, before, target, policy, result, dl,
                   gui_vars>>

\* What ShellExecuteW("runas") answers.
UacAnswers == {"granted", "denied"}

\* relaunch_as_admin: nothing for an administrator or with --no-elevate;
\* else an elevated copy is started and this process exits 0, or, when the
\* elevation is denied, exits 2.
M_relaunch_as_admin ==
    /\ prog = "terminal" /\ pc = "elevate"
    /\ \E is_admin \in BOOLEAN, no_elevate \in BOOLEAN, uac \in UacAnswers :
         IF is_admin \/ no_elevate
         THEN /\ args' = [is_admin |-> is_admin, no_elevate |-> no_elevate]
                         @@ args
              /\ pc' = "check_admin"
              /\ UNCHANGED raised
         ELSE /\ args' = [is_admin |-> is_admin, no_elevate |-> no_elevate,
                          uac |-> uac] @@ args
              /\ Exit(IF uac = "granted" THEN "0" ELSE "2")
    /\ UNCHANGED <<prog, tmp, base_vars, cancel_point, machine, before, disks, target, policy, result,
                   issued, outcomes, dl, gui_vars>>

\* A main that takes --no-elevate for leave to go on without elevation.
M_check_admin_unless_no_elevate ==
    /\ prog = "terminal" /\ pc = "check_admin"
    /\ IF ~args.is_admin /\ ~args.no_elevate
       THEN Exit("2")
       ELSE pc' = "check_params" /\ UNCHANGED raised
    /\ UNCHANGED <<prog, tmp, base_vars, cancel_point, machine, before, args, disks, target, policy,
                   result, issued, outcomes, dl, gui_vars>>

\* if not is_admin(): return 2
M_check_admin ==
    /\ prog = "terminal" /\ pc = "check_admin"
    /\ IF ~args.is_admin
       THEN Exit("2")
       ELSE pc' = "check_params" /\ UNCHANGED raised
    /\ UNCHANGED <<prog, tmp, base_vars, cancel_point, machine, before, args, disks, target, policy,
                   result, issued, outcomes, dl, gui_vars>>

\* if args.disk is None or not args.label: return 1; else the pipeline
M_check_params ==
    /\ prog = "terminal" /\ pc = "check_params"
    /\ \E given \in BOOLEAN :
         /\ args' = Read("disk_and_label", given)
         /\ IF ~given
            THEN Exit("1")
            ELSE pc' = "list_disks" /\ UNCHANGED raised
    /\ UNCHANGED <<prog, tmp, base_vars, cancel_point, machine, before, disks, target, policy, result,
                   issued, outcomes, dl, gui_vars>>

\* return 0 if res.get("status") == "OK" else 1
M_return ==
    /\ prog = "terminal" /\ pc = "returned"
    /\ Exit(IF result.status = "OK" THEN "0" ELSE "1")
    /\ UNCHANGED <<prog, tmp, base_vars, cancel_point, machine, before, args, disks, target, policy,
                   result, issued, outcomes, dl, gui_vars>>

MainNext ==
    \/ M_start
    \/ M_list
    \/ M_relaunch_as_admin
    \/ M_check_admin
    \/ M_check_params
    \/ M_return
    \/ TerminalNext

MainSpec == MainInit /\ [][MainNext]_vars

----------------------------------------------------------------------------

(* Specification: the demonstration window (sdFormatterGUI-base.py)       *)

\* Most FormatWorker threads one session starts.
MaxWorkers == 2

\* list_disks of the demonstration: two cards, numbers 3 and 4.
MockDiskNumbers == <<3, 4>>

\* Texts typed in the label field.
TypedLabels == {<<>>, <<" ">>, <<"a", "b">>}

\* MainWindow.__init__: empty widgets, then load_disks().
BaseInit ==
    /\ prog = "gui_base"
    /\ pc = "ui"
    /\ window = [NoWindow EXCEPT !.rows = MockDiskNumbers]
    /\ workers = <<>>
    /\ cancel_point = None
    /\ machine = <<>> /\ before = <<>> /\ disks = <<>>
    /\ args = <<>> /\ result = NoResult
    /\ target = None /\ policy = NoPolicy /\ raised = NoExc
    /\ issued = <<>> /\ outcomes = <<>> /\ dl = "" /\ tmp = NoFile
    /\ size_bytes = None /\ step = 0 /\ cancelled = FALSE
    /\ emitted = <<>> /\ signals = <<>>

\* What the window and its workers never touch.
BaseFrame ==
    UNCHANGED <<prog, pc, machine, before, args, disks, target, policy,
                result, raised, issued, outcomes, dl, tmp, gui_vars,
                cancel_point>>

\* The user clicks a row of the table.
B_select_row ==
    /\ prog = "gui_base"
    /\ \E r \in 0..(Len(window.rows) - 1) :
         window' = [window EXCEPT !.currentRow = r]
    /\ UNCHANGED workers
    /\ BaseFrame

\* The user types in the label field.
B_edit_label ==
    /\ prog = "gui_base"
    /\ \E l \in TypedLabels : window' = [window EXCEPT !.label = l]
    /\ UNCHANGED workers
    /\ BaseFrame

\* Refresh: setRowCount(0) drops the rows and the selection, then one row
\* per disk is inserted.
B_load_disks ==
    /\ prog = "gui_base"
    /\ window' = [window EXCEPT !.rows = MockDiskNumbers, !.currentRow = -1]
    /\ UNCHANGED workers
    /\ BaseFrame

\* A FormatWorker thread: its arguments and how far run() has got.
Worker(disk, label) == [disk |-> disk, label |-> label, state |-> "started"]

\* Format: without a selected row or without a label a warning is shown;
\* else a worker is created from the form and started.
B_start_format ==
    /\ prog = "gui_base"
    /\ Len(workers) < MaxWorkers
    /\ LET selected == window.currentRow
           label == StripChars(window.label, Whitespace)
       IN IF selected < 0 \/ label = <<>>
          THEN UNCHANGED <<window, workers>>
          ELSE /\ window' = [window EXCEPT !.log = @ + 1, !.progress = 0]
               /\ workers' = Append(workers,
                                    Worker(window.rows[selected + 1], label))
    /\ BaseFrame

\* FormatWorker.run, first half: progress is emitted, the pipeline starts.
B_worker_begin ==
    /\ prog = "gui_base"
    /\ \E i \in DOMAIN workers :
         /\ workers[i].state = "started"
         /\ workers' = [workers EXCEPT ![i].state = "running"]
         /\ window' = [window EXCEPT !.pending =
                          Append(@, [signal |-> "progress", worker |-> i])]
    /\ BaseFrame

\* FormatWorker.run, second half: the pipeline returns, finished is emitted.
B_worker_end ==
    /\ prog = "gui_base"
    /\ \E i \in DOMAIN workers :
         /\ workers[i].state = "running"
         /\ workers' = [workers EXCEPT ![i].state = "done"]
         /\ window' = [window EXCEPT !.pending =
                          Append(@, [signal |-> "finished", worker |-> i])]
    /\ BaseFrame

\* QProgressBar.setValue: a value outside 0..100 is ignored.
SetValue(current, v) == IF v >= 0 /\ v <= 100 THEN v ELSE current

\* The UI thread delivers the oldest queued signal to on_progress or
\* on_finished.
B_dispatch ==
    /\ prog = "gui_base"
    /\ window.pending # <<>>
    /\ LET s == Head(window.pending)
       IN window' = [window EXCEPT
            !.pending = Tail(@),
            !.log = @ + 1,
            !.progress = IF s.signal = "progress"
                         THEN SetValue(@, @ + 20) ELSE SetValue(@, 100)]
    /\ UNCHANGED workers
    /\ BaseFrame

BaseNext ==
    \/ B_select_row
    \/ B_edit_label
    \/ B_load_disks
    \/ B_start_format
    \/ B_worker_begin
    \/ B_worker_end
    \/ B_dispatch

BaseSpec == BaseInit /\ [][BaseNext]_vars

----------------------------------------------------------------------------

(* Vocabulary of the properties *)

Is(f) == Has(f) /\ args[f]

NoMutation == \A i \in DOMAIN issued : issued[i].kind \notin MutatingKinds

TerminalEnded == prog = "terminal" /\ pc \in {"returned", "raised"}

Unsafe(d) == d.is_system \/ d.is_boot \/ d.is_readonly

\* 32 GiB in the model's unit
Fat32Limit == 32 * KiBPerGiB

KindsIssued == {issued[i].kind : i \in DOMAIN issued}

\* The outcome of the script of kind k (the scripts of a run have distinct
\* kinds), None when it did not run or has not returned.
OutcomeOf(k) ==
    LET hits == {i \in DOMAIN outcomes : issued[i].kind = k}
    IN IF hits = {} THEN None ELSE Some(outcomes[CHOOSE i \in hits : TRUE])

AllSucceeded == \A i \in DOMAIN outcomes : outcomes[i].rc = 0

----------------------------------------------------------------------------
(* C1 - terminal pipeline: a target whose record is system, boot or       *)
(* read-only makes ensure_safe_target raise right after the lookup, and   *)
(* no dismount / wipe / clear / partition / format command is issued.     *)

C1_UnsafeTargetStopsAtGate ==
    (prog = "terminal" /\ target # None /\ Unsafe(target[1]))
        => /\ pc \in {"ensure_safe", "raised"}
           /\ pc = "raised" => raised.type = "PermissionError"
           /\ NoMutation
           /\ result = NoResult

C1_Witness ==
    /\ prog = "terminal" /\ pc = "raised"
    /\ target # None /\ target[1].is_readonly
    /\ ~target[1].is_system /\ ~target[1].is_boot
    /\ raised.type = "PermissionError"

----------------------------------------------------------------------------
(* C2 - in dry-run mode no mutating command is executed: the terminal     *)
(* pipeline starts no process at all, the GUI worker skips Set-Disk,      *)
(* Clear-Disk, Initialize-Disk, New-Partition and Format-Volume.          *)

C2_DryRunIssuesNoMutation ==
    Is("dry_run")
        => /\ NoMutation
           /\ prog = "terminal" => issued = <<>>

C2_Witness ==
    /\ prog = "gui" /\ pc = "g_done" /\ Is("dry_run")
    /\ signals = <<"finished">>
    /\ emitted = <<0, 10, 25, 40, 55, 80, 100>>

----------------------------------------------------------------------------
(* C3 - a dry-run invocation on a disk that exists and passes the safety  *)
(* gate ends with a complete result: status OK, every applicable step     *)
(* name in steps, and a synthetic drive letter.                           *)

AllStepNames ==
    <<"dismount_volumes", "clear_and_init", "create_partition_and_format">>

RequestedDiskIsSafe ==
    /\ Has("disk")
    /\ MachineDisk(before, args.disk) # None
    /\ ensure_safe_target(MachineDisk(before, args.disk)[1]) = NoExc

C3_DryRunCompletes ==
    (TerminalEnded /\ Is("dry_run") /\ RequestedDiskIsSafe
       /\ (Has("cluster") => args.cluster.n >= 0)
       /\ (Has("yes") => Confirmed(args.yes,
                                   IF Has("typed") THEN args.typed ELSE <<>>,
                                   args.disk)))
        => /\ pc = "returned"
           /\ result.status = "OK"
           /\ result.steps = AllStepNames
           /\ result.drive_letter \notin {Absent, ""}

----------------------------------------------------------------------------
(* C4 - when the run is not pre-authorized and the token typed is not     *)
(* CONFIRM-<disk number>, the run aborts at Confirm and no mutating       *)
(* command is issued.                                                     *)

WrongToken ==
    /\ prog = "terminal" /\ Has("yes") /\ ~args.yes
    /\ args.typed # ConfirmToken(target[1].number)

C4_WrongTokenAborts ==
    WrongToken
        => /\ pc = "raised"
           /\ raised = Exc("RuntimeError", "Confirmation mismatch")
           /\ NoMutation

C4_Witness ==
    /\ WrongToken
    /\ args.typed = ConfirmToken(target[1].number + 1)
    /\ pc = "raised"
    /\ KindsIssued = {"enumerate"}

----------------------------------------------------------------------------
(* C5 - a run with a wrong confirmation token returns a result record     *)
(* with status ERROR and steps = [], and the drive letters of the target  *)
(* disk are the same after the run as before it.                          *)

C5_WrongTokenReturnsErrorResult ==
    (WrongToken /\ TerminalEnded)
        => /\ pc = "returned"
           /\ result.status = "ERROR"
           /\ result.steps = <<>>
           /\ MachineDisk(machine, args.disk)
                = MachineDisk(before, args.disk)

----------------------------------------------------------------------------
(* C6 - for a target larger than 32 GiB a request whose filesystem        *)
(* resolves to FAT32 is rejected after resolution and before Confirm, so  *)
(* no format command with FAT32 is issued for such a disk.                *)

KnownSize ==
    IF prog = "terminal"
    THEN (IF target = None THEN None ELSE Some(target[1].size))
    ELSE size_bytes

C6_Fat32Over32GiBRejected ==
    (KnownSize # None /\ KnownSize[1] > Fat32Limit /\ policy.fs = "FAT32")
        => /\ pc \in {"raised", "g_done"}
           /\ raised # NoExc
           /\ NoMutation

----------------------------------------------------------------------------
(* C7 - a camera-compatible request resolves to FAT32 whenever the disk   *)
(* is at most 32 GiB, and always to a cluster of 32768 bytes, whatever    *)
(* filesystem and cluster were requested.                                 *)

CameraRequested ==
    IF prog = "terminal" THEN Is("camera_compat") ELSE Is("cam_compat")

C7_CameraForcesFat32And32K ==
    (CameraRequested /\ policy # NoPolicy)
        => /\ (KnownSize # None /\ KnownSize[1] <= Fat32Limit)
                 => policy.fs = "FAT32"
           /\ policy.cluster = Some(32768)

----------------------------------------------------------------------------
(* C8 - a confirmed, non-dry-run run in which every command succeeds,     *)
(* the partition step returns E and the verify output matches, ends with  *)
(* status OK, drive letter E and steps = [dismount_volumes,               *)
(* clear_and_init, create_partition_and_format, verify].                  *)

VerifyNotOptedOut == Has("skip_verify") /\ args.skip_verify # Some(TRUE)

C8_Premise ==
    /\ TerminalEnded /\ Has("yes") /\ Has("dry_run") /\ ~args.dry_run
    /\ Confirmed(args.yes, IF Has("typed") THEN args.typed ELSE <<>>,
                 args.disk)
    /\ AllSucceeded
    /\ OutcomeOf("create_partition_and_format") # None
    /\ OutcomeOf("create_partition_and_format")[1].stdout = <<"E">>
    /\ VerifyNotOptedOut
    /\ OutcomeOf("verify") # None
         => OutcomeOf("verify")[1].stdout
              = <<VolumeFs(policy.fs), policy.label>>
    /\ Has("test_io") => ~args.test_io

C8_SuccessfulRunResult ==
    C8_Premise
        => /\ pc = "returned"
           /\ result.status = "OK"
           /\ result.drive_letter = "E"
           /\ result.steps = Append(AllStepNames, "verify")

----------------------------------------------------------------------------
(* C9 - the states run only in the order Resolve, Confirm, Dismount,      *)
(* Wipe, Initialize, PartitionAndFormat, Verify, IoTest, Done: none runs  *)
(* twice and no command of an earlier state is issued after a command of  *)
(* a later state.                                                         *)

\* The first and the last pipeline state a script belongs to
\* (1 Resolve .. 8 IoTest).
FirstState(kind) ==
    CASE kind = "enumerate" -> 1
      [] kind = "dismount" -> 3
      [] kind \in {"zero_fill", "clear_and_init", "set_disk", "clear_disk"} -> 4
      [] kind = "initialize_disk" -> 5
      [] kind \in {"create_partition_and_format", "new_partition",
                   "format_volume"} -> 6
      [] kind = "verify" -> 7
      [] OTHER -> 8

LastState(kind) ==
    IF kind = "clear_and_init" THEN 5 ELSE FirstState(kind)

IsPrefix(s, t) == Len(s) <= Len(t) /\ s = SubSeq(t, 1, Len(s))

C9_StatesRunInOrder ==
    /\ \A i, j \in DOMAIN issued :
         i < j => /\ LastState(issued[i].kind) <= FirstState(issued[j].kind)
                  /\ issued[i].kind # issued[j].kind
    /\ prog = "terminal" => IsPrefix(result.steps, AllStepNames)
    /\ prog = "gui" => IsPrefix(emitted, <<0, 10, 25, 40, 55, 80, 100>>)

C9_Witness ==
    /\ prog = "terminal" /\ pc = "returned" /\ result.status = "OK"
    /\ KindsIssued = {"enumerate", "dismount", "zero_fill", "clear_and_init",
                      "create_partition_and_format", "verify", "io_test"}

----------------------------------------------------------------------------
(* C10 - when a command fails in Wipe, Initialize, PartitionAndFormat,    *)
(* Verify or IoTest, no command of a later state is issued and the run    *)
(* returns status ERROR, error equal to the failure's message and steps   *)
(* equal to exactly the states completed before the failure.              *)

FatalKinds ==
    {"zero_fill", "clear_and_init", "create_partition_and_format", "verify",
     "io_test"}

\* The message of the exception the failed command ends in.
FailureMessage(kind, proc) ==
    IF kind = "io_test"
    THEN IoTestFailed(IF proc.stderr = "size_mismatch" THEN "Size mismatch"
                      ELSE "write error")
    ELSE IF proc.stderr = "" THEN "PowerShell error" ELSE proc.stderr

\* The names of the states that completed before the script of this kind
\* failed.
CompletedBefore(kind) ==
    <<"dismount_volumes">>
    \o (IF kind \in {"zero_fill", "clear_and_init"} THEN <<>>
        ELSE <<"clear_and_init">>)
    \o (IF kind \in {"verify", "io_test"}
        THEN <<"create_partition_and_format">> ELSE <<>>)
    \o (IF kind = "io_test" /\ result.verify = "OK" THEN <<"verify">>
        ELSE <<>>)

C10_FailureEndsRunWithPartialResult ==
    \A i \in DOMAIN outcomes :
        (prog = "terminal" /\ outcomes[i].rc # 0
           /\ issued[i].kind \in FatalKinds)
        => /\ i = Len(issued)
           /\ pc = "returned"
           /\ result.status = "ERROR"
           /\ result.error = FailureMessage(issued[i].kind, outcomes[i])
           /\ result.steps = CompletedBefore(issued[i].kind)

----------------------------------------------------------------------------
(* C11 - a failed dismount command (non-zero exit of the dismount script) *)
(* is not fatal: the run still goes on to issue the clear / initialize    *)
(* command, and the result's error is never the dismount failure.         *)

DismountFailed ==
    \E i \in DOMAIN outcomes : issued[i].kind = "dismount" /\ outcomes[i].rc # 0

C11_DismountFailureNotFatal ==
    (prog = "terminal" /\ pc = "returned" /\ DismountFailed)
        => /\ "clear_and_init" \in KindsIssued
           /\ result.error # FailureMessage("dismount", OutcomeOf("dismount")[1])

----------------------------------------------------------------------------
(* C12 - with wipe mode none the Wipe state is skipped: neither the       *)
(* zero-fill command nor the clear-metadata (Clear-Disk) command is       *)
(* issued for the target disk.                                            *)

C12_WipeNoneIssuesNoWipeCommand ==
    (prog = "terminal" /\ Has("wipe") /\ args.wipe = "none")
        => \A i \in DOMAIN issued :
               issued[i].kind \notin {"zero_fill", "clear_and_init"}

----------------------------------------------------------------------------
(* C13 - with wipe mode zero-all the zero-fill command is issued exactly  *)
(* once and has completed before the clear / initialize command is        *)
(* issued; with wipe mode metadata no zero-fill command is issued; a      *)
(* failed zero-fill prevents the clear / initialize command.              *)

IndicesOf(k) == {i \in DOMAIN issued : issued[i].kind = k}

\* The run is past the call of clear_and_init.
PastClearAndInit ==
    \/ pc \in {"create", "verify", "test_io"}
    \/ pc = "returned" /\ Len(result.steps) >= 1

C13_ZeroFillOnceBeforeClear ==
    prog = "terminal" =>
        /\ Cardinality(IndicesOf("zero_fill")) <= 1
        /\ (Has("wipe") /\ args.wipe = "zero-all" /\ ~args.dry_run
              /\ PastClearAndInit)
           => Cardinality(IndicesOf("zero_fill")) = 1
        /\ \A j \in IndicesOf("clear_and_init") :
               args.wipe = "zero-all"
               => \E i \in IndicesOf("zero_fill") :
                      i < j /\ outcomes[i].rc = 0
        /\ (Has("wipe") /\ args.wipe = "metadata")
           => IndicesOf("zero_fill") = {}
        /\ (\E i \in IndicesOf("zero_fill") : outcomes[i].rc # 0)
           => IndicesOf("clear_and_init") = {}

C13_Witness ==
    /\ prog = "terminal" /\ pc = "returned" /\ args.wipe = "zero-all"
    /\ ~args.dry_run
    /\ \E i \in IndicesOf("zero_fill"), j \in IndicesOf("clear_and_init") :
           i < j /\ outcomes[i].rc = 0

----------------------------------------------------------------------------
(* C14 - in every step of a run the steps list only grows, by appending   *)
(* at its end, and no step name ever occurs in it more than once.         *)

NoStepTwice ==
    \A i, j \in DOMAIN result.steps :
        result.steps[i] = result.steps[j] => i = j

StepsOnlyAppended ==
    /\ IsPrefix(result.steps, result'.steps)
    /\ Len(result'.steps) <= Len(result.steps) + 1

C14_StepsOnlyGrow == [][StepsOnlyAppended /\ NoStepTwice']_vars

C14_Witness ==
    /\ prog = "terminal" /\ pc = "returned" /\ result.status = "ERROR"
    /\ Len(result.steps) = 3

----------------------------------------------------------------------------
(* C15 - every result the pipeline returns has status ERROR if and only   *)
(* if its error field is present and non-empty; a result with status OK   *)
(* carries no error.                                                      *)

C15_ErrorIffStatusError ==
    (prog = "terminal" /\ pc = "returned")
        => /\ result.status \in {"OK", "ERROR"}
           /\ result.status = "ERROR"
              <=> (result.error # Absent /\ result.error # "")
           /\ result.status = "OK" => result.error = Absent

C15_Witness ==
    /\ prog = "terminal" /\ pc = "returned" /\ result.status = "ERROR"
    /\ result.error = "PowerShell error"
    /\ result.steps = <<"dismount_volumes">>

----------------------------------------------------------------------------
(* C16 - when verification is not skipped, the result has verify = OK     *)
(* only if the filesystem and the label re-read from the volume both      *)
(* match the resolved ones; on a mismatch, on empty output and without a  *)
(* drive letter, verify = FAILED, status = ERROR and the I/O test is not  *)
(* run.                                                                   *)

\* Verification was asked for and verify_volume has returned normally.
VerifyRan ==
    /\ prog = "terminal" /\ pc \in {"test_io", "returned"}
    /\ Has("skip_verify") /\ args.skip_verify = Some(FALSE)
    /\ (dl = "" \/ args.dry_run
        \/ (OutcomeOf("verify") # None /\ OutcomeOf("verify")[1].rc = 0))

\* The volume re-read by the verify command carries the resolved filesystem
\* and label.
VolumeMatches ==
    /\ OutcomeOf("verify") # None
    /\ LET out == OutcomeOf("verify")[1].stdout
       IN /\ Len(out) = 2
          /\ UpperFs(out[1]) = UpperFs(policy.fs)
          /\ out[2] = policy.label

C16_VerifyOkOnlyOnMatch ==
    /\ (prog = "terminal" /\ result.verify = "OK") => VolumeMatches
    /\ (VerifyRan /\ ~VolumeMatches)
       => /\ pc = "returned"
          /\ result.verify = "FAILED"
          /\ result.status = "ERROR"
          /\ "io_test" \notin KindsIssued
          /\ result.test_io = None

\* A label that differs makes the verification fail.
C16_Witness ==
    /\ VerifyRan /\ result.verify = "FAILED"
    /\ OutcomeOf("verify") # None
    /\ Len(OutcomeOf("verify")[1].stdout) = 2
    /\ OutcomeOf("verify")[1].stdout[2] # policy.label

----------------------------------------------------------------------------
(* C17 - no external command is retried: within one run each of the       *)
(* dismount, zero-fill, clear / initialize, partition + format and verify *)
(* commands (and each command of the GUI worker) is issued at most once,  *)
(* and the first command that fails after Dismount is the last command of *)
(* the run, which ends there.                                             *)

\* The commands of the states after Dismount, of either program.
CommandsAfterDismount ==
    {"zero_fill", "clear_and_init", "create_partition_and_format", "verify",
     "set_disk", "clear_disk", "initialize_disk", "new_partition",
     "format_volume"}

RunEndedInFailure ==
    \/ prog = "terminal" /\ pc = "returned" /\ result.status = "ERROR"
    \/ /\ prog = "gui" /\ pc = "g_done" /\ signals = <<"failed">>

C17_NoCommandRetried ==
    /\ \A k \in CommandsAfterDismount \cup {"dismount"} :
           Cardinality(IndicesOf(k)) <= 1
    /\ \A i \in DOMAIN outcomes :
           (issued[i].kind \in CommandsAfterDismount /\ outcomes[i].rc # 0)
           => /\ i = Len(issued)
              /\ RunEndedInFailure

\* A failed partition + format command, after three commands that succeeded.
C17_Witness ==
    /\ prog = "terminal" /\ RunEndedInFailure
    /\ OutcomeOf("create_partition_and_format") # None
    /\ OutcomeOf("create_partition_and_format")[1].rc # 0
    /\ Len(issued) = 5

----------------------------------------------------------------------------
(* C18 - FormatWorker looks at the cancellation flag only between steps:  *)
(* cancel() while a command is in flight changes nothing but the flag and *)
(* the command still returns; the first check that sees the flag ends the *)
(* run with the failed signal and no command of a later step is issued.   *)

\* The positions whose next move ends in _check_cancel().
AtBoundaryCheck == pc \in {"g_step0", "g_run"}

CancelOnlySetsFlag ==
    (~cancelled /\ cancelled')
        => UNCHANGED <<pc, machine, issued, outcomes, emitted, signals, step,
                       raised, result>>

CommandInFlightReturns ==
    (cancelled /\ pc = "g_run" /\ ~args.dry_run)
        => /\ Len(outcomes') = Len(outcomes) + 1
           /\ (outcomes'[Len(outcomes')].rc = 0 /\ (step # 4 \/ dl' # ""))
              => /\ raised' = Cancelled
                 /\ machine' = StepEffect(machine, step, args.disk,
                                          ParseDriveLetter(
                                            outcomes'[Len(outcomes')].stdout))

FirstCheckEndsRun ==
    (cancelled /\ AtBoundaryCheck)
        => /\ pc' = "g_done"
           /\ signals' = <<"failed">>
           /\ issued' = issued

NoCheckElsewhere ==
    (cancelled /\ prog = "gui" /\ ~AtBoundaryCheck) => signals' # <<"failed">>
                                                       \/ raised' # Cancelled

C18_CancelOnlyAtBoundaries ==
    [][prog = "gui" => /\ CancelOnlySetsFlag
                       /\ CommandInFlightReturns
                       /\ FirstCheckEndsRun
                       /\ NoCheckElsewhere]_vars

\* Cancelled while the clear-disk command ran: the command returned and the
\* run ended at the check that follows it.
C18_Witness ==
    /\ prog = "gui" /\ pc = "g_done" /\ raised = Cancelled
    /\ Len(issued) = 3 /\ Len(outcomes) = 3
    /\ issued[3].kind = "clear_disk" /\ outcomes[3].rc = 0

----------------------------------------------------------------------------
(* C19 - when test_io has returned, its temporary file does not exist on  *)
(* the volume, whether the test succeeded, found a size mismatch or       *)
(* failed with a write error; and the test reports success only if the    *)
(* size on disk equals the size_mb * 1 MiB that were to be written.       *)

\* test_io was called on a volume and has returned.
IoTestReturned ==
    /\ prog = "terminal" /\ pc = "returned"
    /\ result.test_io # None
    /\ "io_test" \in KindsIssued

----------------------------------------------------------------------------
(* C20 - the percent values a run emits on the progress channel are       *)
(* integers in 0..100 and never decrease; 100 is emitted only after every *)
(* step has completed, without an error and without a cancellation        *)
(* ending the run.                                                        *)

\* The five steps of the worker ran to their end: each step command that
\* was started has returned with exit code 0 (the size lookup before the
\* steps may fail without ending the run).
AllStepsCompleted ==
    /\ step = 6
    /\ raised = NoExc
    /\ "failed" \notin {signals[i] : i \in DOMAIN signals}
    /\ Len(outcomes) = Len(issued)
    /\ \A i \in DOMAIN outcomes :
           issued[i].kind # "enumerate" => outcomes[i].rc = 0
    /\ ~args.dry_run => Len(issued) = 6

C20_ProgressMonotone ==
    prog = "gui" =>
        /\ \A i \in DOMAIN emitted : emitted[i] \in 0..100
        /\ \A i, j \in DOMAIN emitted : i < j => emitted[i] <= emitted[j]
        /\ (\E i \in DOMAIN emitted : emitted[i] = 100) => AllStepsCompleted

C20_Witness ==
    /\ prog = "gui" /\ pc = "g_done"
    /\ emitted = <<0, 10, 25, 40, 55, 80, 100>>
    /\ signals = <<"finished">>
    /\ ~args.dry_run

----------------------------------------------------------------------------
(* C21 - ensure_safe_target rejects every disk whose is_system, is_boot   *)
(* or is_readonly is true, whatever its size, and accepts every disk with *)
(* all three false and a size of at least 64 MiB.                         *)

C21_GateRejectsFlagsAcceptsLarge ==
    FnReturned("ensure_safe_target") =>
        /\ Unsafe(args.disk) => result[1] # NoExc
        /\ (~Unsafe(args.disk) /\ args.disk.size >= 64 * KiBPerMiB)
           => result[1] = NoExc

\* A disk of exactly 64 MiB with no flag set is accepted.
C21_Witness ==
    /\ FnReturned("ensure_safe_target")
    /\ ~Unsafe(args.disk) /\ args.disk.size = 64 * KiBPerMiB
    /\ result[1] = NoExc

----------------------------------------------------------------------------
(* C22 - ensure_safe_target fails with the too-small error for every disk *)
(* whose flags are all false and whose size is known (not 0) and below    *)
(* 64 MiB; a system / boot disk gets the system / boot rejection whatever *)
(* else holds, and a read-only disk gets the read-only rejection before   *)
(* the too-small one.                                                     *)

TooSmall(d) == d.size # 0 /\ d.size < 64 * KiBPerMiB

C22_TooSmallAndPrecedence ==
    FnReturned("ensure_safe_target") =>
        LET d == args.disk
        IN /\ (~Unsafe(d) /\ TooSmall(d))
              => result[1] = Exc("ValueError", "too small")
           /\ (d.is_system \/ d.is_boot)
              => result[1] = Exc("PermissionError", "system/boot disk")
           /\ (d.is_readonly /\ ~d.is_system /\ ~d.is_boot)
              => result[1] = Exc("PermissionError", "read-only")

\* A read-only disk below the floor is rejected as read-only.
C22_Witness ==
    /\ FnReturned("ensure_safe_target")
    /\ args.disk.is_readonly /\ TooSmall(args.disk)
    /\ result[1] = Exc("PermissionError", "read-only")

----------------------------------------------------------------------------
(* C23 - sanitize_label is idempotent in both modes: sanitizing a label   *)
(* that sanitize_label returned gives the same label back, also for       *)
(* inputs longer than the truncation length whose cut falls next to a     *)
(* space or a dot.                                                        *)

C23_SanitizeLabelIdempotent ==
    FnReturned("sanitize_label") => result[2] = result[1]

----------------------------------------------------------------------------
(* C24 - for every input the camera-compatible label has 1 to 11          *)
(* characters, all of them among A-Z, 0-9, space and underscore, and it   *)
(* is the default SD_CARD only when nothing of the input is left after    *)
(* processing (or the input itself reads SD_CARD).                        *)

\* Something of the label survives the stripping (and, in the English
\* program, the removal of quotes).
HasContent(variant, label) ==
    RemoveChars(label, IF variant = "en" THEN Whitespace \cup Quotes
                       ELSE Whitespace) # <<>>

C24_CameraLabelWellFormed ==
    (prog = "fn" /\ pc \in {"again", "done"} /\ args.fn = "sanitize_label"
       /\ args.camera_compat)
        => LET out == result[1]
           IN /\ Len(out) \in 1..CameraLabelMax
              /\ \A i \in DOMAIN out : out[i] \in CameraChars
              /\ out = DefaultLabel
                 => \/ ~HasContent(args.variant, args.label)
                    \/ args.label = DefaultLabel

\* Twelve characters with something to replace: cut to eleven, the "<"
\* turned into an underscore.
C24_Witness ==
    /\ FnReturned("sanitize_label") /\ args.camera_compat
    /\ args.variant = "en"
    /\ args.label = Rep("A", CameraLabelMax - 1) \o <<"<", "a">>
    /\ result[1] = Rep("A", CameraLabelMax - 1) \o <<"_">>

----------------------------------------------------------------------------
(* C25 - suggest_fs returns FAT32 for every size up to 32 GiB, the        *)
(* boundary included, and exFAT for every larger size.                    *)

C25_SuggestFsThreshold ==
    FnReturned("suggest_fs") =>
        /\ args.bytes_size <= Fat32Limit => result[1] = "FAT32"
        /\ args.bytes_size > Fat32Limit => result[1] = "exFAT"

C25_Witness ==
    /\ FnReturned("suggest_fs")
    /\ args.bytes_size = Fat32Limit /\ result[1] = "FAT32"

----------------------------------------------------------------------------
(* C26 - for a fixed filesystem suggest_cluster is a non-decreasing step  *)
(* function of the size: FAT32 gives 4096 up to 4 GiB, 8192 up to 8 GiB,  *)
(* 16384 up to 16 GiB and 32768 above; exFAT gives 131072 up to 64 GiB,   *)
(* 262144 up to 256 GiB and 524288 above; every boundary belongs to the   *)
(* lower step.                                                            *)

\* The largest size, in GiB, of each step but the last, with its cluster.
Fat32Steps == <<<<4, 4096>>, <<8, 8192>>, <<16, 16384>>>>
ExFatSteps == <<<<64, 131072>>, <<256, 262144>>>>

\* The cluster of the first step that holds the size, else the last cluster.
StepValue(steps, last, size) ==
    LET fits == {i \in DOMAIN steps : size <= steps[i][1] * KiBPerGiB}
    IN IF fits = {} THEN last
       ELSE steps[CHOOSE i \in fits : \A j \in fits : i <= j][2]

C26_SuggestClusterSteps ==
    FnReturned("suggest_cluster") =>
        /\ args.fs = "FAT32"
           => result[1] = StepValue(Fat32Steps, 32768, args.bytes_size)
        /\ args.fs \in {"exFAT", "EXFAT"}
           => result[1] = StepValue(ExFatSteps, 524288, args.bytes_size)
        /\ \A s \in PolicySizes :
               s <= args.bytes_size
               => suggest_cluster(args.fs, s) <= result[1]

C26_Witness ==
    /\ FnReturned("suggest_cluster")
    /\ args.fs = "exFAT" /\ args.bytes_size = 64 * KiBPerGiB
    /\ result[1] = 131072

----------------------------------------------------------------------------
(* C27 - the pipeline is never started by a process without elevated      *)
(* privileges: from main, when is_admin is false the program stops with   *)
(* the insufficient-privilege outcome (exit code 2) and no command of     *)
(* run_format_pipeline is issued, with or without --no-elevate and        *)
(* --dry-run.                                                             *)

\* A formatting request (not --list) made by a process that is no
\* administrator.
NotAdmin == prog = "terminal" /\ Has("is_admin") /\ ~args.is_admin

ElevatedCopyStarted ==
    ~args.no_elevate /\ Has("uac") /\ args.uac = "granted"

----------------------------------------------------------------------------
(* C28 - list_disks returns exactly one record per disk the enumeration   *)
(* query returned, in the same order, a single returned object counting   *)
(* as a one-element sequence; a disk with no partitions or no volumes     *)
(* gets an empty letters sequence, and no error is raised.                *)

C28_OneRecordPerDiskInOrder ==
    FnReturned("list_disks") =>
        LET c == args.catalog
            r == result[1]
        IN /\ raised = NoExc
           /\ Len(r) = Len(c)
           /\ \A i \in DOMAIN c :
                /\ r[i].number = c[i].number
                /\ (c[i].shape.parts = <<>> \/ c[i].shape.vols = <<>>)
                   => r[i].letters = <<>>
                /\ \A j \in DOMAIN r[i].letters : r[i].letters[j] # ""

\* One disk alone, without any partition: the query prints a bare object.
C28_Witness ==
    /\ FnReturned("list_disks")
    /\ Len(args.catalog) = 1
    /\ args.catalog[1].shape.parts = <<>>
    /\ Len(result[1]) = 1
    /\ result[1][1].letters = <<>>

----------------------------------------------------------------------------
(* C29 - verification is on by default: with the arguments parse_args     *)
(* produces (no skip_verify attribute), every run that completes          *)
(* PartitionAndFormat goes on to run verification, so its result carries  *)
(* verify = OK or FAILED.                                                 *)

\* args as parse_args builds them, read at "if not args.skip_verify".
ParsedArgsAtVerify ==
    /\ prog = "terminal" /\ pc = "returned"
    /\ Has("skip_verify") /\ args.skip_verify = None

PartitionAndFormatCompleted ==
    \E i \in DOMAIN result.steps :
        result.steps[i] = "create_partition_and_format"

C29_VerificationRunsByDefault ==
    (ParsedArgsAtVerify /\ PartitionAndFormatCompleted)
        => result.verify \in {"OK", "FAILED"}

----------------------------------------------------------------------------
(* C30 - every failure of the Resolve phase of run_format_pipeline (disk  *)
(* number absent from the catalog, rejection by the safety gate,          *)
(* non-positive explicit cluster size) is raised before any mutating      *)
(* command is issued: the disks are after the failed run as they were     *)
(* before it.                                                             *)

ResolveFailures == {"ValueError", "PermissionError"}

ResolveFailed ==
    /\ prog = "terminal" /\ pc = "raised"
    /\ raised.type \in ResolveFailures

C30_ResolveFailureBeforeMutation ==
    ResolveFailed
        => /\ NoMutation
           /\ machine = before
           /\ result = NoResult
           /\ tmp = NoFile

\* The safety gate refuses a target on a machine that was really queried.
C30_Witness ==
    /\ ResolveFailed
    /\ raised.type = "PermissionError"
    /\ issued # <<>>
    /\ machine = before

----------------------------------------------------------------------------
(* C31 - the resolved policy is computed once before Confirm and never    *)
(* changes afterwards: the filesystem, label and cluster recorded in the  *)
(* result at its creation are the values passed to the format command     *)
(* and to verification, and no step modifies the result's disk, fs,       *)
(* style, label or cluster fields.                                        *)

ResultCreated == prog = "terminal" /\ result # NoResult

\* The result records the policy, and every format command and every
\* successful verification used the recorded values.
PolicyUsedAsRecorded ==
    ResultCreated
        => /\ result.disk = target[1].number
           /\ result.fs = policy.fs
           /\ result.style = policy.style
           /\ result.label = policy.label
           /\ result.cluster = policy.cluster
           /\ \A i \in IndicesOf("create_partition_and_format") :
                /\ issued[i].disk = result.disk
                /\ issued[i].detail
                   = <<result.fs, result.label, result.cluster>>
           /\ \A i \in IndicesOf("clear_and_init") :
                issued[i].detail = <<result.style>>
           /\ result.verify = "OK"
              => LET out == OutcomeOf("verify")[1].stdout
                 IN /\ UpperFs(out[1]) = UpperFs(result.fs)
                    /\ out[2] = result.label

PolicyFieldsFrozen ==
    /\ (prog = "terminal" /\ pc \in {"confirm", "dismount", "clear_and_init",
                                     "create", "verify", "test_io"})
       => policy' = policy
    /\ ResultCreated
       => /\ result'.disk = result.disk
          /\ result'.fs = result.fs
          /\ result'.style = result.style
          /\ result'.label = result.label
          /\ result'.cluster = result.cluster

C31_PolicyComputedOnce ==
    [][PolicyUsedAsRecorded /\ PolicyUsedAsRecorded' /\ PolicyFieldsFrozen]_vars

\* A run formatted with an explicit cluster size and verified.
C31_Witness ==
    /\ ResultCreated /\ pc = "returned"
    /\ result.status = "OK" /\ result.verify = "OK"
    /\ result.cluster = Some(65536)
    /\ IndicesOf("create_partition_and_format") # {}

----------------------------------------------------------------------------
(* C32 - at most one formatting run is active against a given disk number *)
(* at any time: the window never starts a second FormatWorker for a disk  *)
(* while an earlier worker for that disk is still running, whatever the   *)
(* sequence of Format clicks.                                             *)

Active(w) == w.state # "done"

C32_OneActiveRunPerDisk ==
    \A i, j \in DOMAIN workers :
        (i # j /\ Active(workers[i]) /\ Active(workers[j]))
            => workers[i].disk # workers[j].disk

----------------------------------------------------------------------------
(* C33 - the GUI FormatWorker never issues a mutating command (Set-Disk,  *)
(* Clear-Disk, Initialize-Disk, New-Partition, Format-Volume) against a   *)
(* disk whose catalog record has is_system, is_boot or is_readonly true,  *)
(* and never clears the read-only attribute of a disk the catalog reports *)
(* as read-only.                                                          *)

\* The catalog record of disk n when the run started.
CatalogUnsafe(n) ==
    /\ MachineDisk(before, n) # None
    /\ Unsafe(MachineDisk(before, n)[1])

C33_GuiNeverMutatesUnsafeDisk ==
    prog = "gui"
        => /\ \A i \in DOMAIN issued :
                issued[i].kind \in MutatingKinds
                    => ~CatalogUnsafe(issued[i].disk)
           /\ \A i \in DOMAIN before :
                before[i].is_readonly => machine[i].is_readonly

----------------------------------------------------------------------------
(* C34 - the format command is only ever issued against the drive letter  *)
(* that the partition step reported for the partition just created on     *)
(* the target disk; when the partition step reports no drive letter, no   *)
(* volume is formatted and the run fails.  Terminal program: partition    *)
(* and format are one script on the target disk.  GUI worker: the letter  *)
(* of Format-Volume is the output of New-Partition.                       *)

\* What New-Partition printed, once it has returned successfully.
PartitionReported ==
    IF OutcomeOf("new_partition") # None
       /\ OutcomeOf("new_partition")[1].rc = 0
    THEN Some(OutcomeOf("new_partition")[1].stdout)
    ELSE None

C34_FormatOnlyReportedLetter ==
    /\ prog = "terminal"
       => \A i \in IndicesOf("create_partition_and_format") :
            issued[i].disk = target[1].number
    /\ prog = "gui"
       => /\ \A i \in IndicesOf("format_volume") :
               /\ PartitionReported # None
               /\ PartitionReported[1] = <<issued[i].detail[1]>>
          /\ PartitionReported = Some(<<>>)
             => /\ IndicesOf("format_volume") = {}
                /\ pc = "g_done" => signals = <<"failed">>

----------------------------------------------------------------------------
(* C35 - the terminal pipeline enumerates the catalog through the same    *)
(* dry-run switch as the mutating commands, and in dry-run mode it still  *)
(* locates the requested disk: for every disk number present on the       *)
(* machine a dry-run call does not fail with the disk-not-found error.    *)

DiskNotFound ==
    pc = "raised" /\ raised = Exc("ValueError", "Disk not found")

C35_DryRunLocatesDisk ==
    (prog = "terminal" /\ Is("dry_run") /\ Has("disk")
       /\ MachineDisk(machine, args.disk) # None)
        => ~DiskNotFound

----------------------------------------------------------------------------
(* C36 - in a non-dry-run FormatWorker run, whenever Set-Disk,            *)
(* Clear-Disk, Initialize-Disk, New-Partition and Format-Volume have all  *)
(* completed successfully, the worker emits finished with status OK and   *)
(* never failed, even if cancel() was called while the last command was   *)
(* in flight; and every run emits exactly one of finished or failed.      *)

GuiCommandKinds ==
    {"set_disk", "clear_disk", "initialize_disk", "new_partition",
     "format_volume"}

AllCommandsSucceeded ==
    \A k \in GuiCommandKinds :
        OutcomeOf(k) # None /\ OutcomeOf(k)[1].rc = 0

GuiEnded == prog = "gui" /\ pc = "g_done"

C36_SuccessfulCommandsEmitFinished ==
    /\ prog = "gui" => Len(signals) <= 1
    /\ GuiEnded => Len(signals) = 1
    /\ (GuiEnded /\ AllCommandsSucceeded)
       => /\ signals = <<"finished">>
          /\ result.status = "OK"

----------------------------------------------------------------------------
(* C37 - with cancel() callable from the UI thread at any moment of a     *)
(* FormatWorker run, at most one mutating command is started after the    *)
(* cancellation flag has been set, and none is started if the flag was    *)
(* set before the first boundary check.                                   *)

\* Mutating commands started after cancel() was called.
StartedAfterCancel ==
    {i \in DOMAIN issued :
        /\ i > cancel_point[1].issued
        /\ issued[i].kind \in MutatingKinds}

BeforeFirstCheck == {"g_start", "g_resolve", "g_step0"}

C37_AtMostOneCommandAfterCancel ==
    (prog = "gui" /\ cancel_point # None)
        => /\ cancelled
           /\ Cardinality(StartedAfterCancel) <= 1
           /\ cancel_point[1].pc \in BeforeFirstCheck => NoMutation

\* cancel() falls between a boundary check and the next command: that one
\* command is still started, and the run ends at the check after it.
C37_Witness ==
    /\ prog = "gui" /\ pc = "g_done"
    /\ cancel_point # None /\ cancel_point[1].pc = "g_begin"
    /\ Cardinality(StartedAfterCancel) = 1
    /\ signals = <<"failed">>

----------------------------------------------------------------------------
(* C38 - the label that run_format_pipeline of the English program embeds *)
(* in the single-quoted format command never contains a single-quote or   *)
(* double-quote character, for every raw label and both camera_compat     *)
(* values: the label cannot end the quoted argument.                      *)

HasQuote(s) == \E i \in DOMAIN s : s[i] \in Quotes

\* sanitize_label of the English program has returned (line 423).
EnglishLabelReturned ==
    /\ prog = "fn" /\ args.fn = "sanitize_label" /\ args.variant = "en"
    /\ result # <<>>

C38_LabelHasNoQuote ==
    EnglishLabelReturned => \A i \in DOMAIN result : ~HasQuote(result[i])

\* A raw label with both kinds of quote, in general mode.
C38_Witness ==
    /\ EnglishLabelReturned /\ ~args.camera_compat
    /\ \E i, j \in DOMAIN args.label :
         args.label[i] = "'" /\ args.label[j] = "\""
    /\ ~HasQuote(result[1])
    /\ result[1] # DefaultLabel

----------------------------------------------------------------------------
(* C39 - a disk whose reported size is 0 (unknown) with all safety flags  *)
(* false passes ensure_safe_target, and an AUTO filesystem request for it *)
(* resolves to FAT32 with AUTO cluster 4096 in run_format_pipeline; the   *)
(* GUI FormatWorker, when the size cannot be determined, resolves AUTO to *)
(* exFAT and rejects an explicit FAT32 request.                           *)

\* Terminal program: the target was found, is not flagged, has size 0.
UnknownSizeTarget ==
    /\ prog = "terminal" /\ target # None
    /\ target[1].size = 0 /\ ~Unsafe(target[1])

\* GUI worker: the policy was resolved without a size.
ResolvedWithoutSize ==
    prog = "gui" /\ policy # NoPolicy /\ size_bytes = None

C39_UnknownSizePolicy ==
    /\ UnknownSizeTarget
       => /\ pc = "raised"
             => /\ raised.type # "PermissionError"
                /\ raised.msg # "too small"
          /\ (policy # NoPolicy /\ args.fs = "AUTO")
             => /\ policy.fs = "FAT32"
                /\ args.cluster.auto => policy.cluster = Some(4096)
    /\ ResolvedWithoutSize
       => /\ args.fs = "AUTO" => policy.fs = "exFAT"
          /\ args.fs = "FAT32"
             => /\ pc = "g_done"
                /\ signals = <<"failed">>
                /\ NoMutation

\* A card of unknown size formatted with everything left to AUTO.
C39_Witness ==
    /\ UnknownSizeTarget /\ pc = "returned"
    /\ args.fs = "AUTO" /\ args.cluster.auto
    /\ policy.fs = "FAT32" /\ policy.cluster = Some(4096)
    /\ IndicesOf("create_partition_and_format") # {}

====
